---- MODULE Spec2Model ----
(***************************************************************************)
(* A model of the AI provider resilience layer of helmchecker:             *)
(*   - MemoryCache and CachedProvider      (internal/ai/cache.go)          *)
(*   - ProviderChain                       (internal/ai/provider.go)       *)
(*   - CopilotProvider: rate limiter, retry loop (internal/ai/copilot)     *)
(* Each subsystem has its own specification (SpecCache, SpecChain,         *)
(* SpecCopilot); the variables of the other subsystems stay at their       *)
(* initial value under it.                                                 *)
(***************************************************************************)
EXTENDS Integers, Sequences, FiniteSets, TLC

VARIABLES
    cache,          \* MemoryCache: [items, lru, currentSize, stats]
    now,            \* the wall clock read by time.Now() in the cache
    cacheOps,       \* number of cache / CachedProvider operations performed
    lastOp,         \* the last cache-side operation with its arguments and results
    analyzeCalls,   \* MockProvider.analyzeCalls of the wrapped provider
    handed,         \* the *Response objects CachedProvider.Analyze returned on misses
    keyed,          \* two requests and the cache keys generated for them
    conc,           \* c.mu and the goroutines calling the cache concurrently
    chain,          \* the ProviderChain.Analyze call in progress
    chainRuns,      \* number of ProviderChain.Analyze calls started
    calls,          \* CopilotProvider calls, one record per caller goroutine
    tokens,         \* rate.Limiter: tokens in the bucket
    clock,          \* time of the CopilotProvider world, in refill intervals
    httpLog,        \* start time of every HTTP request issued by the provider
    metrics,        \* UsageMetrics of the CopilotProvider (p.metrics)
    stream,         \* one AnalyzeStream call: producer goroutine, channel, consumer
    members,        \* a ProviderChain under Validate, Close and GetMetrics
    config,         \* a Config under ValidateConfig and GetEnabledProviders
    usage,          \* the calls made on a UsageMetrics and the last rate it returned
    retry,          \* an outcome of an HTTP round trip and the retry decision taken on it
    flight,         \* callers running CachedProvider.Analyze at the same time
    rw,             \* the sync.RWMutex of each UsageMetrics and the goroutines locking them
    run             \* Checker.Run: the configuration, the cluster and Helm's files it meets, its position, the releases and updates it found, what it did and what it returned

cacheVars == <<cache, now, cacheOps, lastOp, analyzeCalls, handed, keyed, conc>>
chainVars == <<chain, chainRuns>>
copilotVars == <<calls, tokens, clock, httpLog, metrics>>
vars == <<cache, now, cacheOps, lastOp, analyzeCalls, handed, keyed, conc, chain,
          chainRuns,
          calls, tokens, clock, httpLog, metrics, stream, members, config, usage, retry, flight, rw, run>>
moreVars == <<stream, members, config, usage, retry, flight, rw, run>>

(***************************************************************************)
(* Bounds of the model.                                                    *)
(***************************************************************************)
MaxCacheOps == 4
MaxAnalyzeOps == 3
MaxTime == 2
MaxTTL == 1

None == "none"

(***************************************************************************)
(* Strings are sequences of characters; only their length and equality     *)
(* matter to the cache.                                                    *)
(***************************************************************************)
Chars(n) == [i \in 1..n |-> "x"]

(***************************************************************************)
(* Requests and responses.                                                 *)
(***************************************************************************)
\* A string is the sequence of its bytes.
Queries == {<<"q", "1">>, <<"q", "2">>, <<"q", "3">>}
RequestIDs == {"a", "b"}

Requests ==
    [ID : RequestIDs, Query : Queries, Type : {"general"}, MaxTokens : {0},
     Temperature : {0}, Context : {None}, UseCache : BOOLEAN,
     CacheTTL : {0, 1}]

\* The requests sent through the CachedProvider: two queries; the second id
\* and the TTL override are used with the first query only.
AnalyzeRequests ==
    {r \in Requests :
        /\ r.Query \in {<<"q", "1">>, <<"q", "2">>}
        /\ (r.ID = "b" \/ r.CacheTTL = 1) => (r.Query = <<"q", "1">> /\ r.UseCache)}

\* Content lengths of the responses a backend produces: one that leaves room
\* for a second entry, one that does not, one larger than the whole budget.
ContentLenList == <<1, 12, 150>>
SmallLen == ContentLenList[1]
MediumLen == ContentLenList[2]
HugeLen == ContentLenList[3]
ContentLens == {SmallLen, MediumLen, HugeLen}

MkResponse(id, n) ==
    [ID |-> id, Content |-> Chars(n), Provider |-> "p", Cached |-> FALSE]

\* Two more content lengths: an entry that fits beside a small one, and one
\* that fills the budget almost alone.
RoomyLen == 5
BulkyLen == 138

\* The responses given to Set directly.
Responses ==
    {MkResponse("a", SmallLen), MkResponse("b", MediumLen), MkResponse("a", HugeLen)}

\* The responses of the runs that replace entries: a replacement can be so
\* much larger than the entry it replaces that another entry has to go.
ReplaceResponses ==
    {MkResponse("a", SmallLen), MkResponse("b", RoomyLen), MkResponse("a", BulkyLen)}

(***************************************************************************)
(* MemoryCache                                                             *)
(***************************************************************************)
maxSize == 270
Overhead == 128
DefaultTTL == 2

calculateSize(response) ==
    Len(response.ID) + Len(response.Content) + Len(response.Provider) + Overhead

\* Bytes that are not part of any valid UTF-8 text.
InvalidBytes == {"xFE", "xFF"}

\* encoding/json writes a string byte for byte, except that every byte that
\* is not valid UTF-8 is written as the replacement character U+FFFD.
jsonString(str) ==
    [i \in DOMAIN str |-> IF str[i] \in InvalidBytes THEN "ufffd" ELSE str[i]]

\* Stands for the float64 +Inf, which is above every temperature in use.
Inf == 99

\* json.Marshal refuses a float that is not finite.
MarshalFails(req) == req.Temperature = Inf

\* json.Marshal(keyData): the five fields in the order of the struct.
Marshal(req) ==
    <<"{Query:">> \o jsonString(req.Query)
       \o <<",Type:", req.Type, ",MaxTokens:", ToString(req.MaxTokens),
            ",Temperature:", ToString(req.Temperature),
            ",Context:", req.Context, "}">>

\* The key is the sha256 of the JSON text in hex, taken as collision free
\* (the digest is the text it was computed of); when Marshal fails the key is
\* fmt.Sprintf("%s:%s", req.Type, req.Query).
GenerateCacheKey(req) ==
    IF MarshalFails(req)
    THEN <<req.Type, ":">> \o req.Query
    ELSE <<"sha256">> \o Marshal(req)

CacheKeys == {GenerateCacheKey(r) : r \in Requests}

NewMemoryCache ==
    [items |-> <<>>, lru |-> <<>>, currentSize |-> 0,
     stats |-> [Hits |-> 0, Misses |-> 0, Evictions |-> 0, Count |-> 0, Size |-> 0]]

Without(f, k) == [x \in (DOMAIN f) \ {k} |-> f[x]]

RemoveKey(s, k) == SelectSeq(s, LAMBDA x : x # k)

\* c.lru.Remove(entry.lruElement); delete(c.items, entry.key);
\* c.currentSize -= entry.size
deleteEntry(c, key) ==
    [c EXCEPT !.lru = RemoveKey(@, key),
              !.items = Without(@, key),
              !.currentSize = @ - c.items[key].size]

evictOldest(c) ==
    IF Len(c.lru) = 0 THEN c
    ELSE [deleteEntry(c, c.lru[Len(c.lru)]) EXCEPT !.stats.Evictions = @ + 1]

RECURSIVE evictLoop(_, _)
evictLoop(c, size) ==
    IF c.currentSize + size > maxSize /\ Len(c.lru) > 0
    THEN evictLoop(evictOldest(c), size)
    ELSE c

\* A faulty variant: an entry is served one time unit past its expiry.
ExpiredLate(entry, t) == t > entry.expiresAt + 1

\* time.Now().After(entry.expiresAt)
Expired(entry, t) == t > entry.expiresAt

\* A faulty variant: the copy is handed out without the mark.
CachedCopyUnmarked(response) == response

\* responseCopy := *entry.response; responseCopy.Cached = true
CachedCopy(response) == [response EXCEPT !.Cached = TRUE]

\* The result of Get: the cache afterwards, found, and the copy handed out.
\* A faulty variant: a hit marks the stored response itself and hands it out.
GetMarkingStored(c, key, t) ==
    IF key \notin DOMAIN c.items
    THEN [c |-> [c EXCEPT !.stats.Misses = @ + 1], found |-> FALSE, resp |-> None]
    ELSE IF Expired(c.items[key], t)
    THEN [c |-> [deleteEntry(c, key) EXCEPT !.stats.Misses = @ + 1],
          found |-> FALSE, resp |-> None]
    ELSE [c |-> [c EXCEPT !.lru = <<key>> \o RemoveKey(@, key),
                          !.stats.Hits = @ + 1,
                          !.items[key].response.Cached = TRUE],
          found |-> TRUE,
          resp |-> CachedCopy(c.items[key].response)]

Get(c, key, t) ==
    IF key \notin DOMAIN c.items
    THEN [c |-> [c EXCEPT !.stats.Misses = @ + 1], found |-> FALSE, resp |-> None]
    ELSE IF Expired(c.items[key], t)
    THEN [c |-> [deleteEntry(c, key) EXCEPT !.stats.Misses = @ + 1],
          found |-> FALSE, resp |-> None]
    ELSE [c |-> [c EXCEPT !.lru = <<key>> \o RemoveKey(@, key),
                          !.stats.Hits = @ + 1],
          found |-> TRUE,
          resp |-> CachedCopy(c.items[key].response)]

\* The existing entry of the key is taken out of the cache.
SetRemoveExisting(c, key) ==
    IF key \in DOMAIN c.items
    THEN deleteEntry([c EXCEPT !.currentSize = @ - c.items[key].size], key)
    ELSE c

\* A faulty variant: no entry is held to be too large.
TooLargeNever(size) == FALSE

\* if size > c.maxSize { return &ErrCacheFailed{...} }
TooLarge(size) == size > maxSize

\* The result of Set: the cache afterwards and the error (None when stored).
Set(c, key, response, ttl, t) ==
    LET size == calculateSize(response)
        c1 == SetRemoveExisting(c, key)
        c2 == evictLoop(c1, size)
    IN  IF TooLarge(size)
        THEN [c |-> c2, err |-> "ErrCacheFailed"]
        ELSE LET entry == [response |-> response, size |-> size,
                           expiresAt |-> t + ttl]
                 items2 == [x \in (DOMAIN c2.items) \cup {key} |->
                               IF x = key THEN entry ELSE c2.items[x]]
                 c3 == [c2 EXCEPT !.items = items2,
                                  !.lru = <<key>> \o @,
                                  !.currentSize = @ + size]
             IN [c |-> [c3 EXCEPT !.stats.Count = Cardinality(DOMAIN c3.items),
                                  !.stats.Size = c3.currentSize],
                 err |-> None]

Delete(c, key) ==
    IF key \notin DOMAIN c.items THEN c
    ELSE LET c1 == deleteEntry(c, key)
         IN [c1 EXCEPT !.stats.Count = Cardinality(DOMAIN c1.items),
                       !.stats.Size = c1.currentSize]

Clear(c) ==
    [c EXCEPT !.items = <<>>, !.lru = <<>>, !.currentSize = 0,
              !.stats.Count = 0, !.stats.Size = 0]

\* A faulty variant: the sweep takes every entry for expired.
ExpiredKeysAll(c, t) == DOMAIN c.items

\* for key, entry := range c.items { if now.After(entry.expiresAt) ... }
ExpiredKeys(c, t) == {k \in DOMAIN c.items : Expired(c.items[k], t)}

RECURSIVE deleteAll(_, _)
deleteAll(c, keys) ==
    IF keys = {} THEN c
    ELSE LET k == CHOOSE x \in keys : TRUE
         IN deleteAll(deleteEntry(c, k), keys \ {k})

\* The result of CleanupExpired: the cache afterwards and the number removed.
CleanupExpired(c, t) ==
    LET gone == ExpiredKeys(c, t)
        c1 == deleteAll(c, gone)
    IN [c |-> [c1 EXCEPT !.stats.Count = Cardinality(DOMAIN c1.items),
                         !.stats.Size = c1.currentSize],
        removed |-> Cardinality(gone)]

(***************************************************************************)
(* CachedProvider.Analyze around a MockProvider whose analyzeFunc either   *)
(* fails or answers with a response echoing the request id.                *)
(***************************************************************************)
ProviderOutcomes ==
    {[ok |-> FALSE, len |-> 0]} \cup {[ok |-> TRUE, len |-> n] : n \in ContentLens}

\* A faulty variant: the cache is consulted whatever the request says.
LooksUpAlways(req) == TRUE

\* if req.Options.UseCache { ... p.cache.Get(key) ... }
LooksUp(req) == req.UseCache

\* if req.Options.UseCache && resp != nil { ... p.cache.Set(...) }
Stores(req) == req.UseCache

\* A faulty variant: the error of Set becomes the error of Analyze.
SetErrorReturned(err) == err

\* _ = p.cache.Set(...): what Set returns is dropped.
SetError(err) == None

\* A faulty variant: the TTL of the request is not looked at.
CachedTTLDefault(req) == DefaultTTL

\* ttl := p.ttl; if req.Options.CacheTTL > 0 { ttl = req.Options.CacheTTL }
CachedTTL(req) == IF req.CacheTTL > 0 THEN req.CacheTTL ELSE DefaultTTL

\* A faulty variant: what the wrapped provider returned is stored whether
\* the call failed or not, a failed call leaving an empty response behind.
CachedAnalyzeStoringFailures(c, req, outcome, t) ==
    LET key == GenerateCacheKey(req)
        look == IF LooksUp(req) THEN Get(c, key, t)
                ELSE [c |-> c, found |-> FALSE, resp |-> None]
        resp == MkResponse(req.ID, IF outcome.ok THEN outcome.len ELSE SmallLen)
        set == IF Stores(req)
               THEN Set(look.c, key, resp, CachedTTL(req), t)
               ELSE [c |-> look.c, err |-> None]
        err == SetError(set.err)
    IN  IF look.found
        THEN [c |-> look.c, looked |-> look.c, called |-> FALSE,
              resp |-> look.resp, err |-> None]
        ELSE IF ~outcome.ok
        THEN [c |-> set.c, looked |-> look.c, called |-> TRUE,
              resp |-> None, err |-> "provider error"]
        ELSE [c |-> set.c,
              looked |-> look.c,
              called |-> TRUE,
              resp |-> IF err = None THEN resp ELSE None,
              err |-> err]

\* The result of CachedProvider.Analyze: the cache afterwards, whether the
\* wrapped provider was invoked, the response and the error.
CachedAnalyze(c, req, outcome, t) ==
    LET key == GenerateCacheKey(req)
        look == IF LooksUp(req) THEN Get(c, key, t)
                ELSE [c |-> c, found |-> FALSE, resp |-> None]
    IN  IF look.found
        THEN [c |-> look.c, looked |-> look.c, called |-> FALSE,
              resp |-> look.resp, err |-> None]
        ELSE IF ~outcome.ok
        THEN [c |-> look.c, looked |-> look.c, called |-> TRUE,
              resp |-> None, err |-> "provider error"]
        ELSE LET resp == MkResponse(req.ID, outcome.len)
                 set == IF Stores(req)
                        THEN Set(look.c, key, resp, CachedTTL(req), t)
                        ELSE [c |-> look.c, err |-> None]
                 err == SetError(set.err)
             IN [c |-> set.c,
                 looked |-> look.c,
                 called |-> TRUE,
                 resp |-> IF err = None THEN resp ELSE None,
                 err |-> err]

\* Set keeps the pointer it is given (entry.response = response), so the
\* object returned on a miss and the object held by the cache are one object
\* for as long as the entry lives: what is written through the entry shows
\* in the caller's object. Once the entry is gone the object is the caller's
\* alone.
Shared(h, c) ==
    {IF o.live /\ o.key \in DOMAIN c.items
     THEN [o EXCEPT !.resp = c.items[o.key].response]
     ELSE [o EXCEPT !.live = FALSE] : o \in h}

\* The objects handed out, after one more CachedProvider.Analyze with result r.
Handed(h, key, r) ==
    LET seen == Shared(h, r.looked)
        kept == Shared({IF r.called /\ o.key = key
                        THEN [o EXCEPT !.live = FALSE] ELSE o : o \in seen}, r.c)
    IN  IF r.called /\ r.err = None
        THEN kept \cup {[key |-> key, resp |-> r.resp,
                         live |-> key \in DOMAIN r.c.items]}
        ELSE kept

Op(op, key, req, found, resp, err, removed, ttl) ==
    [op |-> op, key |-> key, req |-> req, found |-> found, resp |-> resp,
     err |-> err, removed |-> removed, ttl |-> ttl]

CacheGet(key) ==
    /\ cacheOps < MaxCacheOps
    /\ LET r == Get(cache, key, now)
       IN /\ cache' = r.c
          /\ lastOp' = Op("Get", key, None, r.found, r.resp, None, 0, 0)
    /\ cacheOps' = cacheOps + 1
    /\ UNCHANGED <<now, analyzeCalls, handed, keyed, conc, chainVars, copilotVars, moreVars>>

CacheSet(key, response, ttl) ==
    /\ cacheOps < MaxCacheOps
    /\ LET r == Set(cache, key, response, ttl, now)
       IN /\ cache' = r.c
          /\ lastOp' = Op("Set", key, None, FALSE, response, r.err, 0, ttl)
    /\ cacheOps' = cacheOps + 1
    /\ UNCHANGED <<now, analyzeCalls, handed, keyed, conc, chainVars, copilotVars, moreVars>>

CacheDelete(key) ==
    /\ cacheOps < MaxCacheOps
    /\ cache' = Delete(cache, key)
    /\ lastOp' = Op("Delete", key, None, FALSE, None, None, 0, 0)
    /\ cacheOps' = cacheOps + 1
    /\ UNCHANGED <<now, analyzeCalls, handed, keyed, conc, chainVars, copilotVars, moreVars>>

CacheClear ==
    /\ cacheOps < MaxCacheOps
    /\ cache' = Clear(cache)
    /\ lastOp' = Op("Clear", None, None, FALSE, None, None, 0, 0)
    /\ cacheOps' = cacheOps + 1
    /\ UNCHANGED <<now, analyzeCalls, handed, keyed, conc, chainVars, copilotVars, moreVars>>

\* One firing of the ticker of StartCleanupTimer, or a direct call.
CacheCleanup ==
    /\ cacheOps < MaxCacheOps
    /\ LET r == CleanupExpired(cache, now)
       IN /\ cache' = r.c
          /\ lastOp' = Op("CleanupExpired", None, None, FALSE, None, None, r.removed, 0)
    /\ cacheOps' = cacheOps + 1
    /\ UNCHANGED <<now, analyzeCalls, handed, keyed, conc, chainVars, copilotVars, moreVars>>

CachedProviderAnalyze(req, outcome) ==
    /\ cacheOps < MaxAnalyzeOps
    /\ LET r == CachedAnalyze(cache, req, outcome, now)
       IN /\ cache' = r.c
          /\ analyzeCalls' = IF r.called THEN analyzeCalls + 1 ELSE analyzeCalls
          /\ lastOp' = Op("Analyze", GenerateCacheKey(req), req, ~r.called,
                          r.resp, r.err, 0, 0)
          /\ handed' = Handed(handed, GenerateCacheKey(req), r)
    /\ cacheOps' = cacheOps + 1
    /\ UNCHANGED <<now, keyed, conc, chainVars, copilotVars, moreVars>>

\* Time passes.
CacheTick ==
    /\ now < MaxTime
    /\ now' = now + 1
    /\ UNCHANGED <<cache, cacheOps, lastOp, analyzeCalls, handed, keyed, conc, chainVars, copilotVars, moreVars>>

NoOp == Op("New", None, None, FALSE, None, None, 0, 0)

CacheInit ==
    /\ cache = NewMemoryCache /\ now = 0 /\ cacheOps = 0
    /\ lastOp = NoOp /\ analyzeCalls = 0 /\ handed = {} /\ keyed = None /\ conc = None
    /\ chain = None /\ chainRuns = 0
    /\ calls = None /\ tokens = 0 /\ clock = 0 /\ httpLog = None
    /\ metrics = None
    /\ stream = None /\ members = None /\ config = None /\ usage = None /\ retry = None /\ flight = None /\ rw = None /\ run = None

CacheNext ==
    \/ \E k \in CacheKeys : CacheGet(k)
    \/ \E k \in CacheKeys, r \in Responses, ttl \in 1..MaxTTL : CacheSet(k, r, ttl)
    \/ \E k \in CacheKeys : CacheDelete(k)
    \/ CacheClear
    \/ CacheCleanup
    \/ CacheTick

\* Runs of Set, Get and Delete on two keys.
ReplaceKeys == {GenerateCacheKey(r) : r \in AnalyzeRequests}

ReplaceNext ==
    \/ \E k \in ReplaceKeys : CacheGet(k)
    \/ \E k \in ReplaceKeys, r \in ReplaceResponses, ttl \in 1..MaxTTL : CacheSet(k, r, ttl)
    \/ \E k \in ReplaceKeys : CacheDelete(k)
    \/ CacheTick

\* GenerateCacheKey applied to two requests, in either order. The requests
\* differ in the fields the key is made of and in those it is not made of;
\* their queries are byte strings of up to MaxQueryLen bytes.
MaxQueryLen == 2
QueryBytes == {"q"} \cup InvalidBytes
KeyQueries == UNION {[1..n -> QueryBytes] : n \in 1..MaxQueryLen}

KeyRequests ==
    [ID : RequestIDs, Query : KeyQueries, Type : {"general"}, MaxTokens : {0},
     Temperature : {0, Inf}, Context : {None}, UseCache : BOOLEAN,
     CacheTTL : {0}, Metadata : {None, "m"}]

GenerateKey(i) ==
    /\ keyed.k[i] = <<>>
    /\ keyed' = [keyed EXCEPT !.k[i] = GenerateCacheKey(keyed.r[i])]
    /\ UNCHANGED <<cache, now, cacheOps, lastOp, analyzeCalls, handed, conc,
                   chainVars, copilotVars, moreVars>>

KeyInit ==
    /\ \E r1 \in {r \in KeyRequests : r.ID = "a" /\ ~r.UseCache /\ r.Metadata = None},
          r2 \in KeyRequests :
          keyed = [r |-> <<r1, r2>>, k |-> <<<<>>, <<>>>>]
    /\ cache = NewMemoryCache /\ now = 0 /\ cacheOps = 0
    /\ lastOp = NoOp /\ analyzeCalls = 0 /\ handed = {} /\ conc = None
    /\ chain = None /\ chainRuns = 0
    /\ calls = None /\ tokens = 0 /\ clock = 0 /\ httpLog = None
    /\ metrics = None
    /\ stream = None /\ members = None /\ config = None /\ usage = None /\ retry = None /\ flight = None /\ rw = None /\ run = None

KeyNext == \E i \in 1..2 : GenerateKey(i)

(***************************************************************************)
(* Goroutines calling one MemoryCache. Every operation takes c.mu, reads   *)
(* the cache, writes the map and the list, writes the counters and lets    *)
(* go of c.mu on return. The workers Set their own key and then Get it;    *)
(* one more goroutine deletes, clears and sweeps meanwhile.                *)
(***************************************************************************)
NumWorkers == 2
MaxJanitorOps == 1
Janitor == 0
Workers == 1..NumWorkers
Goroutines == {Janitor} \cup Workers

WorkerKey(i) == <<"k", ToString(i)>>
WorkerResponse == MkResponse("a", SmallLen)
HourTTL == MaxTime + 1

ConcOp(name, key) == [name |-> name, key |-> key]

\* The operations a goroutine may start after n finished ones.
NextOps(p, n) ==
    IF p = Janitor
    THEN IF n < MaxJanitorOps
         THEN {ConcOp("Delete", WorkerKey(i)) : i \in Workers}
                 \cup {ConcOp("Clear", <<>>), ConcOp("CleanupExpired", <<>>)}
         ELSE {}
    ELSE IF n = 0 THEN {ConcOp("Set", WorkerKey(p))}
    ELSE IF n = 1 THEN {ConcOp("Get", WorkerKey(p))}
    ELSE {}

\* What an operation makes of cache c: the cache afterwards, whether a Get
\* found its key, and the number of entries it took out.
Apply(op, c, t) ==
    LET after == CASE op.name = "Set" ->
                        [c |-> Set(c, op.key, WorkerResponse, HourTTL, t).c, found |-> FALSE]
                   [] op.name = "Get" ->
                        LET r == Get(c, op.key, t) IN [c |-> r.c, found |-> r.found]
                   [] op.name = "Delete" -> [c |-> Delete(c, op.key), found |-> FALSE]
                   [] op.name = "Clear" -> [c |-> Clear(c), found |-> FALSE]
                   [] OTHER -> [c |-> CleanupExpired(c, t).c, found |-> FALSE]
    IN [c |-> after.c, found |-> after.found,
        removed |-> Cardinality(DOMAIN c.items \ DOMAIN after.c.items)]

\* A faulty variant: c.mu never makes a goroutine wait.
CanLockAlways(mu) == TRUE

\* c.mu.Lock() returns once no goroutine holds c.mu.
CanLock(mu) == mu = {}

NewGoroutine ==
    [pc |-> "idle", n |-> 0, op |-> ConcOp("none", <<>>), work |-> None,
     hit |-> FALSE, removed |-> 0]

\* c.mu.Lock()
ConcLock(p, op) ==
    /\ conc.procs[p].pc = "idle"
    /\ op \in NextOps(p, conc.procs[p].n)
    /\ CanLock(conc.mu)
    /\ conc' = [conc EXCEPT !.mu = @ \cup {p}, !.procs[p].pc = "locked",
                            !.procs[p].op = op]
    /\ UNCHANGED <<cache, now, cacheOps, lastOp, analyzeCalls, handed, keyed,
                   chainVars, copilotVars, moreVars>>

\* The reads of the operation: what it is going to write is settled.
ConcCompute(p) ==
    /\ conc.procs[p].pc = "locked"
    /\ conc' = [conc EXCEPT !.procs[p].pc = "computed",
                            !.procs[p].work = Apply(conc.procs[p].op, cache, now)]
    /\ UNCHANGED <<cache, now, cacheOps, lastOp, analyzeCalls, handed, keyed,
                   chainVars, copilotVars, moreVars>>

\* The writes to c.items and c.lru.
ConcWrite(p) ==
    /\ conc.procs[p].pc = "computed"
    /\ cache' = [cache EXCEPT !.items = conc.procs[p].work.c.items,
                              !.lru = conc.procs[p].work.c.lru]
    /\ conc' = [conc EXCEPT !.procs[p].pc = "written"]
    /\ UNCHANGED <<now, cacheOps, lastOp, analyzeCalls, handed, keyed,
                   chainVars, copilotVars, moreVars>>

\* The writes to c.currentSize and c.stats, and the deferred c.mu.Unlock().
ConcUnlock(p) ==
    /\ conc.procs[p].pc = "written"
    /\ LET me == conc.procs[p]
       IN /\ cache' = [cache EXCEPT !.currentSize = me.work.c.currentSize,
                                    !.stats = me.work.c.stats]
          /\ conc' = [conc EXCEPT
                        !.mu = @ \ {p},
                        !.procs[p] = [pc |-> "idle", n |-> me.n + 1, op |-> me.op,
                                      work |-> None,
                                      hit |-> IF me.op.name = "Get"
                                              THEN me.work.found ELSE me.hit,
                                      removed |-> me.removed + me.work.removed]]
    /\ UNCHANGED <<now, cacheOps, lastOp, analyzeCalls, handed, keyed,
                   chainVars, copilotVars, moreVars>>

ConcInit ==
    /\ conc = [mu |-> {}, procs |-> [p \in Goroutines |-> NewGoroutine]]
    /\ cache = NewMemoryCache /\ now = 0 /\ cacheOps = 0
    /\ lastOp = NoOp /\ analyzeCalls = 0 /\ handed = {} /\ keyed = None
    /\ chain = None /\ chainRuns = 0
    /\ calls = None /\ tokens = 0 /\ clock = 0 /\ httpLog = None
    /\ metrics = None
    /\ stream = None /\ members = None /\ config = None /\ usage = None /\ retry = None /\ flight = None /\ rw = None /\ run = None

ConcNext ==
    \E p \in Goroutines :
        \/ \E op \in NextOps(p, conc.procs[p].n) : ConcLock(p, op)
        \/ ConcCompute(p)
        \/ ConcWrite(p)
        \/ ConcUnlock(p)

CachedNext ==
    \/ \E req \in AnalyzeRequests, o \in ProviderOutcomes :
          CachedProviderAnalyze(req, o)
    \/ CacheTick

(***************************************************************************)
(* ProviderChain.Analyze. The members are providers of any kind: each call *)
(* of a member's Analyze either returns a response of that member or one   *)
(* of the errors of the taxonomy. One step per iteration of the loop.      *)
(***************************************************************************)
NumProviders == 3
MaxChainRuns == 2

ProviderName(i) == <<"p1", "p2", "p3", "p4">>[i]

\* The nil *Response.
NoResponse == [ID |-> "", Content |-> <<>>, Provider |-> "", Cached |-> FALSE]

ChainErrors == {"ErrTimeout", "ErrAuthenticationFailed", "context canceled"}

\* What a member of the chain can answer to a request.
MemberOutcomes(i, req) ==
    {[ok |-> TRUE, resp |-> [ID |-> req.ID, Content |-> Chars(n),
                             Provider |-> ProviderName(i), Cached |-> FALSE],
      err |-> None] : n \in {SmallLen, MediumLen}}
    \cup {[ok |-> FALSE, resp |-> NoResponse, err |-> e] : e \in ChainErrors}

ChainRequests == {r \in Requests : r.Query = <<"q", "1">> /\ ~r.UseCache /\ r.CacheTTL = 0}

\* The nil error, and a member's error handed on as it is.
NoChainErr == [kind |-> "nil", LastError |-> "nil"]
MemberErr(e) == [kind |-> e, LastError |-> "nil"]

\* c.providers, fixed by NewProviderChain: the first n providers.
NewProviderChain(n) ==
    [providers |-> [i \in 1..n |-> i], pc |-> "idle", req |-> None, next |-> 1,
     invoked |-> <<>>, answers |-> <<>>, lastErr |-> "nil", resp |-> NoResponse,
     err |-> NoChainErr, cancelled |-> FALSE]

\* return nil, &ErrAllProvidersFailed{LastError: lastErr}
AllProvidersFailed(lastErr) == [kind |-> "ErrAllProvidersFailed", LastError |-> lastErr]

\* A faulty variant: an authentication failure ends the loop.
ChainStopsOnPermanent(ch, err) == err # "ErrAuthenticationFailed"

\* The loop goes on to the next member after a member's error.
ChainContinues(ch, err) == TRUE

\* A faulty variant: the chain puts its own name on the response.
ChainResultRelabelled(ch, resp) == [resp EXCEPT !.Provider = "chain"]

\* The response handed back for a member's success.
ChainResult(ch, resp) == resp

ChainAnalyzeStart(req) ==
    /\ chain.pc \in {"idle", "done"}
    /\ chainRuns < MaxChainRuns
    /\ chain' = [chain EXCEPT !.pc = "running", !.req = req, !.next = 1,
                              !.invoked = <<>>, !.answers = <<>>,
                              !.lastErr = "nil", !.resp = NoResponse, !.err = NoChainErr,
                              !.cancelled = FALSE]
    /\ chainRuns' = chainRuns + 1
    /\ UNCHANGED <<cacheVars, copilotVars, moreVars>>

\* One iteration: resp, err := provider.Analyze(ctx, req)
ChainAnalyzeTry(o) ==
    /\ chain.pc = "running"
    /\ chain.next <= Len(chain.providers)
    /\ o \in MemberOutcomes(chain.providers[chain.next], chain.req)
    /\ LET ch == [chain EXCEPT !.invoked = Append(@, chain.providers[chain.next]),
                               !.answers = Append(@, o)]
       IN chain' = IF o.ok
                   THEN [ch EXCEPT !.pc = "done", !.resp = ChainResult(ch, o.resp)]
                   ELSE IF ChainContinues(ch, o.err)
                   THEN [ch EXCEPT !.lastErr = o.err, !.next = @ + 1]
                   ELSE [ch EXCEPT !.pc = "done", !.err = MemberErr(o.err)]
    /\ UNCHANGED <<chainRuns, cacheVars, copilotVars, moreVars>>

\* The loop has run out of members.
ChainAnalyzeFail ==
    /\ chain.pc = "running"
    /\ chain.next > Len(chain.providers)
    /\ chain' = [chain EXCEPT !.pc = "done", !.err = AllProvidersFailed(chain.lastErr)]
    /\ UNCHANGED <<chainRuns, cacheVars, copilotVars, moreVars>>

\* The caller cancels the context of the call in progress.
ChainCancel ==
    /\ chain.pc = "running"
    /\ ~chain.cancelled
    /\ chain' = [chain EXCEPT !.cancelled = TRUE]
    /\ UNCHANGED <<chainRuns, cacheVars, copilotVars, moreVars>>

ChainInit ==
    /\ \E n \in 0..NumProviders : chain = NewProviderChain(n)
    /\ chainRuns = 0
    /\ cache = NewMemoryCache /\ now = 0 /\ cacheOps = 0
    /\ lastOp = NoOp /\ analyzeCalls = 0 /\ handed = {} /\ keyed = None /\ conc = None
    /\ calls = None /\ tokens = 0 /\ clock = 0 /\ httpLog = None
    /\ metrics = None
    /\ stream = None /\ members = None /\ config = None /\ usage = None /\ retry = None /\ flight = None /\ rw = None /\ run = None

ChainNext ==
    \/ \E req \in ChainRequests : ChainAnalyzeStart(req)
    \/ \E i \in 1..NumProviders, req \in ChainRequests :
          \E o \in MemberOutcomes(i, req) : ChainAnalyzeTry(o)
    \/ ChainAnalyzeFail
    \/ ChainCancel

(***************************************************************************)
(* UsageMetrics. Costs and time stamps are left out: no counter depends on *)
(* them.                                                                   *)
(***************************************************************************)
NewUsageMetrics ==
    [TotalRequests |-> 0, SuccessfulRequests |-> 0, FailedRequests |-> 0,
     CachedResponses |-> 0, TotalTokensUsed |-> 0, AverageLatency |-> 0,
     ProviderMetrics |-> <<>>, RequestsByType |-> <<>>, ErrorsByType |-> <<>>]

NewProviderMetrics(name) ==
    [Name |-> name, Requests |-> 0, SuccessfulRequests |-> 0, FailedRequests |-> 0,
     TokensUsed |-> 0, AverageLatency |-> 0]

\* The map with the entry of key k set to v.
Put(f, k, v) == [x \in (DOMAIN f) \cup {k} |-> IF x = k THEN v ELSE f[x]]

\* m[k]++ on a map of counters.
Bump(f, k, n) == Put(f, k, (IF k \in DOMAIN f THEN f[k] ELSE 0) + n)

\* The metrics with the provider's record created when it is missing.
getOrCreateProviderMetrics(m, provider) ==
    IF provider \in DOMAIN m.ProviderMetrics THEN m
    ELSE [m EXCEPT !.ProviderMetrics = Put(@, provider, NewProviderMetrics(provider))]

RecordRequest(m, provider, tokensUsed) ==
    LET m1 == getOrCreateProviderMetrics(
                  [m EXCEPT !.TotalRequests = @ + 1, !.SuccessfulRequests = @ + 1,
                            !.TotalTokensUsed = @ + tokensUsed], provider)
    IN [m1 EXCEPT !.ProviderMetrics[provider].Requests = @ + 1,
                  !.ProviderMetrics[provider].SuccessfulRequests = @ + 1,
                  !.ProviderMetrics[provider].TokensUsed = @ + tokensUsed]

RecordFailure(m, provider, errType) ==
    LET m1 == getOrCreateProviderMetrics(
                  [m EXCEPT !.TotalRequests = @ + 1, !.FailedRequests = @ + 1], provider)
    IN [m1 EXCEPT !.ProviderMetrics[provider].Requests = @ + 1,
                  !.ProviderMetrics[provider].FailedRequests = @ + 1,
                  !.ErrorsByType = Bump(@, errType, 1)]

\* (int64(avg)*n + int64(duration)) / (n + 1), or the duration when n is 0.
FoldLatency(avg, n, duration) ==
    IF n > 0 THEN (avg * n + duration) \div (n + 1) ELSE duration

RecordLatency(m, provider, duration) ==
    LET m1 == getOrCreateProviderMetrics(
                  [m EXCEPT !.AverageLatency =
                                FoldLatency(@, m.SuccessfulRequests, duration)],
                  provider)
        pm == m1.ProviderMetrics[provider]
    IN [m1 EXCEPT !.ProviderMetrics[provider].AverageLatency =
                      FoldLatency(pm.AverageLatency, pm.SuccessfulRequests, duration)]

RecordRequestType(m, analysisType) ==
    [m EXCEPT !.RequestsByType = Bump(@, analysisType, 1)]

(***************************************************************************)
(* CopilotProvider. Time is counted in refill intervals of the limiter     *)
(* (60/RateLimitPerMinute seconds), so that the bucket gains one token per *)
(* tick and a minute is RateLimitPerMinute ticks. DefaultConfig has 60     *)
(* requests per minute and a RetryDelay of one second, so RetryDelay is    *)
(* one refill interval; the model keeps that ratio with a smaller limit.   *)
(*                                                                         *)
(* An error is the sequence of the fragments of its message; the fragments *)
(* are chosen so that a fragment contains one of the substrings that       *)
(* isRetryableError looks for only when it is that substring.              *)
(***************************************************************************)
Callers == {"g1", "g2"}
MaxClock == 6

RateLimitPerMinute == 2
MaxRetries == 3
RetryDelay == 1

NilErr == <<>>
CtxErr == <<"context canceled">>

Contains(errStr, sub) == \E i \in 1..Len(errStr) : errStr[i] = sub

\* The error responses the backend gives to an HTTP request.
Failures ==
    {[transport |-> FALSE, status |-> "400", json |-> FALSE, code |-> "", text |-> "bad request"],
     [transport |-> FALSE, status |-> "400", json |-> TRUE, code |-> "invalid_request",
      text |-> "timeout"],
     [transport |-> FALSE, status |-> "503", json |-> FALSE, code |-> "", text |-> "unavailable"]}

\* client.Do fails under a context that is done.
CtxFailure ==
    [transport |-> TRUE, status |-> "", json |-> FALSE, code |-> "", text |-> "context canceled"]

\* fmt.Errorf("API error (%s): %s", ...) when the body is an ErrorResponse,
\* fmt.Errorf("HTTP %d: %s", ...) otherwise.
handleErrorResponse(f) ==
    IF f.json THEN <<"API error", f.code, f.text>>
    ELSE <<"HTTP", f.status, f.text>>

\* The error doRequest returns for a failed round trip.
doRequestError(f) ==
    IF f.transport THEN <<"request failed", f.text>> ELSE handleErrorResponse(f)

isRetryableError(err) ==
    IF err = NilErr THEN FALSE
    ELSE \/ Contains(err, "rate limit") \/ Contains(err, "429")
         \/ Contains(err, "timeout") \/ Contains(err, "connection")
         \/ Contains(err, "500") \/ Contains(err, "502")
         \/ Contains(err, "503") \/ Contains(err, "504")

\* time.After(p.config.RetryDelay * time.Duration(attempt))
BackoffDelay(attempt) == RetryDelay * attempt

\* fmt.Errorf("rate limit wait failed: %w", err)
RateLimitWaitFailed(err) == <<"rate limit wait failed">> \o err

\* A faulty variant: the error is wrapped before it is returned.
AnalyzeErrorWrapped(call) == <<"retry exhausted">> \o call.err

\* The error Analyze returns when the loop has ended with err != nil.
AnalyzeError(call) == call.err

\* for attempt := 0; attempt <= p.config.MaxRetries; attempt++
LoopContinues(attempt) == attempt <= MaxRetries

\* if ctx.Err() != nil || !isRetryableError(err) { break }
BreaksLoop(call, err) == call.cancelled \/ ~isRetryableError(err)

\* A faulty variant: the backoff sleeps without watching the context.
BackoffIgnoresCancel(call) == FALSE

\* case <-ctx.Done(): return nil, ctx.Err()
BackoffSeesCancel(call) == call.cancelled

\* A faulty variant: the wait for a token does not watch the context.
WaitNeverFails(call) == FALSE

\* rateLimiter.Wait(ctx) returns an error once the context is done.
WaitFails(call) == call.cancelled

NewCall ==
    [pc |-> "idle", kind |-> "Analyze", attempt |-> 0,
     cancelled |-> FALSE, hasToken |-> FALSE, tries |-> 0, sent |-> 0,
     err |-> NilErr,
     delay |-> 0, deadline |-> 0, ok |-> FALSE, ret |-> NilErr, via |-> "none",
     duration |-> 0, tokensUsed |-> 0]

Done(call, ok, err, via) ==
    [call EXCEPT !.pc = "done", !.ok = ok, !.ret = err, !.via = via]

\* rate.NewLimiter(rate.Limit(rps), config.RateLimitPerMinute): the bucket
\* holds at most the burst and starts full.
Burst == RateLimitPerMinute

LogHttp(log, t) == [log EXCEPT ![t] = @ + 1]

\* func (p *CopilotProvider) Name() string
CopilotName == "github-copilot"

\* time.Since(startTime) of a successful call, and the TokensUsed.TotalTokens of
\* its response.
Durations == {2, 4}
ResponseTokens == {3}

\* The metrics after the step that took a call to the state c2: RecordFailure
\* on the error exits of Analyze and AnalyzeStream that record one,
\* RecordRequest once Analyze has its response.
MetricsAfter(m, c2) ==
    IF c2.pc = "done" /\ c2.via \in {"rate_limit", "request_failed", "streaming_failed"}
    THEN RecordFailure(m, CopilotName, c2.via)
    ELSE IF c2.pc = "latency" THEN RecordRequest(m, CopilotName, c2.tokensUsed)
    ELSE m

\* A caller goroutine makes its call of Analyze or AnalyzeStream.
CopilotStart(g, kind) ==
    /\ calls[g].pc = "idle"
    /\ calls' = [calls EXCEPT ![g] = [NewCall EXCEPT !.pc = "wait", !.kind = kind]]
    /\ UNCHANGED <<tokens, clock, httpLog, metrics, cacheVars, chainVars, moreVars>>

\* The context of a call in progress is cancelled or reaches its deadline.
CopilotCancel(g) ==
    /\ calls[g].pc \in {"wait", "request", "backoff"}
    /\ ~calls[g].cancelled
    /\ calls' = [calls EXCEPT ![g].cancelled = TRUE]
    /\ UNCHANGED <<tokens, clock, httpLog, metrics, cacheVars, chainVars, moreVars>>

\* p.rateLimiter.Wait(ctx) returns nil: a token is taken from the bucket.
LimiterAcquire(g) ==
    /\ calls[g].pc = "wait"
    /\ ~WaitFails(calls[g])
    /\ tokens >= 1
    /\ tokens' = tokens - 1
    /\ calls' = [calls EXCEPT ![g].pc = "request", ![g].hasToken = TRUE]
    /\ UNCHANGED <<clock, httpLog, metrics, cacheVars, chainVars, moreVars>>

\* p.rateLimiter.Wait(ctx) returns an error: the call returns it, wrapped.
LimiterWaitFail(g) ==
    /\ calls[g].pc = "wait"
    /\ WaitFails(calls[g])
    /\ calls' = [calls EXCEPT ![g] =
                    Done(calls[g], FALSE, RateLimitWaitFailed(CtxErr), "rate_limit")]
    /\ metrics' = MetricsAfter(metrics, calls'[g])
    /\ UNCHANGED <<tokens, clock, httpLog, cacheVars, chainVars, moreVars>>

\* The call after doRequest has returned err in the retry loop of Analyze.
AfterFailure(call, err) ==
    LET c1 == [call EXCEPT !.err = err]
    IN  IF BreaksLoop(c1, err) \/ ~LoopContinues(call.attempt + 1)
        THEN Done(c1, FALSE, AnalyzeError(c1), "request_failed")
        ELSE [c1 EXCEPT !.pc = "backoff", !.attempt = @ + 1,
                        !.delay = BackoffDelay(call.attempt + 1),
                        !.deadline = clock + BackoffDelay(call.attempt + 1)]

\* The call after doRequest / doStreamingRequest has returned err.
AfterRequest(call, err) ==
    IF err = NilErr
    THEN IF call.kind = "Analyze"
         THEN [call EXCEPT !.err = NilErr, !.pc = "latency"]
         ELSE Done([call EXCEPT !.err = NilErr], TRUE, NilErr, "success")
    ELSE IF call.kind = "AnalyzeStream"
    THEN Done([call EXCEPT !.err = err], FALSE, err, "streaming_failed")
    ELSE AfterFailure(call, err)

\* One invocation of the backend whose round trip ends with a response.
\* A context that is already done makes client.Do fail before anything is sent.
\* Analyze then measures its duration and records the request.
CopilotRequestOK(g, d, tok) ==
    /\ calls[g].pc = "request"
    /\ ~calls[g].cancelled
    /\ httpLog' = LogHttp(httpLog, clock)
    /\ calls' = [calls EXCEPT ![g] =
                    AfterRequest([calls[g] EXCEPT !.tries = @ + 1, !.sent = @ + 1,
                                                  !.duration = d, !.tokensUsed = tok],
                                 NilErr)]
    /\ metrics' = MetricsAfter(metrics, calls'[g])
    /\ UNCHANGED <<tokens, clock, cacheVars, chainVars, moreVars>>

\* p.metrics.RecordLatency(...); p.metrics.RecordRequestType(req.Type);
\* return resp, nil
CopilotRecordLatency(g) ==
    /\ calls[g].pc = "latency"
    /\ metrics' = RecordRequestType(
                      RecordLatency(metrics, CopilotName, calls[g].duration), "general")
    /\ calls' = [calls EXCEPT ![g] =
                    Done([calls[g] EXCEPT !.duration = 0, !.tokensUsed = 0],
                         TRUE, NilErr, "success")]
    /\ UNCHANGED <<tokens, clock, httpLog, cacheVars, chainVars, moreVars>>

\* One invocation of the backend that the backend answers with an error.
CopilotRequestFails(g, f) ==
    /\ calls[g].pc = "request"
    /\ ~calls[g].cancelled
    /\ httpLog' = LogHttp(httpLog, clock)
    /\ calls' = [calls EXCEPT ![g] =
                    AfterRequest([calls[g] EXCEPT !.tries = @ + 1, !.sent = @ + 1],
                                 doRequestError(f))]
    /\ metrics' = MetricsAfter(metrics, calls'[g])
    /\ UNCHANGED <<tokens, clock, cacheVars, chainVars, moreVars>>

\* One invocation of the backend under a context that is done: either the
\* context was done before (nothing is sent) or it ends during the round trip.
CopilotRequestCancelled(g, inFlight) ==
    /\ calls[g].pc = "request"
    /\ calls[g].cancelled = ~inFlight
    /\ httpLog' = IF inFlight THEN LogHttp(httpLog, clock) ELSE httpLog
    /\ calls' = [calls EXCEPT ![g] =
                    AfterRequest([calls[g] EXCEPT !.cancelled = TRUE,
                                                  !.tries = @ + 1,
                                                  !.sent = IF inFlight THEN @ + 1 ELSE @],
                                 doRequestError(CtxFailure))]
    /\ metrics' = MetricsAfter(metrics, calls'[g])
    /\ UNCHANGED <<tokens, clock, cacheVars, chainVars, moreVars>>

\* case <-time.After(...): the backoff timer has fired and the loop goes on.
\* When the context is done as well, select takes either case.
BackoffElapsed(g) ==
    /\ calls[g].pc = "backoff"
    /\ clock >= calls[g].deadline
    /\ calls' = [calls EXCEPT ![g].pc = "request"]
    /\ UNCHANGED <<tokens, clock, httpLog, metrics, cacheVars, chainVars, moreVars>>

\* case <-ctx.Done(): return nil, ctx.Err()
BackoffCancelled(g) ==
    /\ calls[g].pc = "backoff"
    /\ BackoffSeesCancel(calls[g])
    /\ calls' = [calls EXCEPT ![g] = Done(calls[g], FALSE, CtxErr, "backoff_cancelled")]
    /\ UNCHANGED <<tokens, clock, httpLog, metrics, cacheVars, chainVars, moreVars>>

\* One refill interval passes: the bucket gains a token, up to its burst.
CopilotTick ==
    /\ clock < MaxClock
    /\ clock' = clock + 1
    /\ tokens' = IF tokens < Burst THEN tokens + 1 ELSE tokens
    /\ UNCHANGED <<calls, httpLog, metrics, cacheVars, chainVars, moreVars>>

CopilotInit ==
    /\ calls = [g \in Callers |-> NewCall]
    /\ tokens = Burst
    /\ clock = 0
    /\ httpLog = [t \in 0..MaxClock |-> 0]
    /\ metrics = NewUsageMetrics
    /\ stream = None /\ members = None /\ config = None /\ usage = None /\ retry = None /\ flight = None /\ rw = None /\ run = None
    /\ cache = NewMemoryCache /\ now = 0 /\ cacheOps = 0
    /\ lastOp = NoOp /\ analyzeCalls = 0 /\ handed = {} /\ keyed = None /\ conc = None
    /\ chain = None /\ chainRuns = 0

CopilotNext ==
    \/ \E g \in Callers, kind \in {"Analyze", "AnalyzeStream"} : CopilotStart(g, kind)
    \/ \E g \in Callers : CopilotCancel(g)
    \/ \E g \in Callers : LimiterAcquire(g)
    \/ \E g \in Callers : LimiterWaitFail(g)
    \/ \E g \in Callers, d \in Durations, tok \in ResponseTokens : CopilotRequestOK(g, d, tok)
    \/ \E g \in Callers : CopilotRecordLatency(g)
    \/ \E g \in Callers, f \in Failures : CopilotRequestFails(g, f)
    \/ \E g \in Callers, inFlight \in BOOLEAN : CopilotRequestCancelled(g, inFlight)
    \/ \E g \in Callers : BackoffElapsed(g)
    \/ \E g \in Callers : BackoffCancelled(g)
    \/ CopilotTick

(***************************************************************************)
(* The stream of AnalyzeStream: doStreamingRequest makes the channel and   *)
(* starts readStream, which scans the body line by line and sends chunks;  *)
(* the caller receives from the channel for as long as it likes. The body  *)
(* is what the server chooses to send, one line per Scan.                  *)
(***************************************************************************)
MaxLines == 4

\* make(chan ai.StreamChunk, 10): the capacity, scaled down like the body.
ChanCap == 2

\* The lines of a body: an empty line, a line without the "data: " prefix,
\* "data: [DONE]", a data line that is no JSON, a data line with content,
\* one with a finish reason, and one with no choices.
LineKinds == {"empty", "other", "done", "bad", "delta", "finish", "nochoice"}

StreamChunk(content, done, err) == [Content |-> content, Done |-> done, Error |-> err]

\* The chunk readStream makes of a parsed data line.
ChunkOf(line) ==
    StreamChunk(IF line = "delta" THEN "x" ELSE "", line = "finish", None)

\* len(strings.Fields(content)) of the content of a line.
FieldsOf(line) == IF line = "delta" THEN 1 ELSE 0

NewStream ==
    [pc |-> "new", ctxDone |-> FALSE, lines |-> 0, totalTokens |-> 0,
     chan |-> <<>>, closed |-> FALSE, closers |-> {},
     pending |-> None, after |-> "none", sent |-> <<>>, received |-> 0]

\* chunks := make(chan ai.StreamChunk, 10); go p.readStream(ctx, body, chunks)
StreamOpen ==
    /\ stream.pc = "new"
    /\ stream' = [stream EXCEPT !.pc = "scan"]
    /\ UNCHANGED <<cacheVars, chainVars, copilotVars, members, config, usage, retry, flight, rw, run>>

\* The caller's context is cancelled or reaches its deadline.
StreamCancel ==
    /\ stream.pc # "new" /\ ~stream.ctxDone
    /\ stream' = [stream EXCEPT !.ctxDone = TRUE]
    /\ UNCHANGED <<cacheVars, chainVars, copilotVars, members, config, usage, retry, flight, rw, run>>

\* The loop goes on after the send at the end of its body.
AfterChunk(chunk) == "scan"

\* scanner.Scan() has returned true with the given line: one turn of the
\* loop up to its send, its continue, its break or its return.
StreamScanLine(line) ==
    /\ stream.pc = "scan" /\ stream.lines < MaxLines
    /\ stream' =
          IF stream.ctxDone
          THEN [stream EXCEPT !.lines = @ + 1, !.pc = "closing"]
          ELSE IF line \in {"empty", "other"}
          THEN [stream EXCEPT !.lines = @ + 1]
          ELSE IF line = "done"
          THEN [stream EXCEPT !.lines = @ + 1, !.pc = "record", !.after = "closing"]
          ELSE IF line = "bad"
          THEN [stream EXCEPT !.lines = @ + 1, !.pc = "send",
                              !.pending = StreamChunk("", FALSE, "failed to parse chunk"),
                              !.after = "closing"]
          ELSE [stream EXCEPT !.lines = @ + 1, !.pc = "send",
                              !.totalTokens = @ + FieldsOf(line),
                              !.pending = ChunkOf(line),
                              !.after = AfterChunk(ChunkOf(line))]
    /\ UNCHANGED <<cacheVars, chainVars, copilotVars, members, config, usage, retry, flight, rw, run>>

\* scanner.Scan() has returned false: the body has ended (readErr FALSE) or
\* reading it has failed (readErr TRUE), as it does once the context of the
\* request is done.
StreamScanEnd(readErr) ==
    /\ stream.pc = "scan"
    /\ stream.ctxDone => readErr
    /\ stream' = [stream EXCEPT !.pc = "record",
                                !.after = IF readErr THEN "send" ELSE "closing"]
    /\ UNCHANGED <<cacheVars, chainVars, copilotVars, members, config, usage, retry, flight, rw, run>>

\* After the loop: the token estimate is recorded when there is one, and a
\* read error becomes an error chunk to send.
StreamRecord ==
    /\ stream.pc = "record"
    /\ metrics' = IF stream.totalTokens > 0
                  THEN RecordRequest(metrics, CopilotName, stream.totalTokens)
                  ELSE metrics
    /\ stream' = IF stream.after = "send"
                 THEN [stream EXCEPT !.pc = "send", !.after = "closing",
                                     !.pending = StreamChunk("", FALSE, "stream read error")]
                 ELSE [stream EXCEPT !.pc = "closing"]
    /\ UNCHANGED <<calls, tokens, clock, httpLog, cacheVars, chainVars, members, config, usage, retry, flight, rw, run>>

\* chunks <- chunk: goes through once the buffer has room.
StreamSend ==
    /\ stream.pc = "send"
    /\ Len(stream.chan) < ChanCap
    /\ stream' = [stream EXCEPT !.chan = Append(@, stream.pending),
                                !.sent = Append(@, stream.pending),
                                !.pending = None,
                                !.pc = stream.after, !.after = "none"]
    /\ UNCHANGED <<cacheVars, chainVars, copilotVars, members, config, usage, retry, flight, rw, run>>

\* defer close(chunks), as readStream returns.
StreamClose ==
    /\ stream.pc = "closing"
    /\ stream' = [stream EXCEPT !.pc = "exit", !.closed = TRUE,
                                !.closers = @ \cup {"readStream"}]
    /\ UNCHANGED <<cacheVars, chainVars, copilotVars, members, config, usage, retry, flight, rw, run>>

\* The caller receives one chunk.
StreamReceive ==
    /\ stream.pc # "new" /\ Len(stream.chan) > 0
    /\ stream' = [stream EXCEPT !.chan = Tail(@), !.received = @ + 1]
    /\ UNCHANGED <<cacheVars, chainVars, copilotVars, members, config, usage, retry, flight, rw, run>>

StreamInit ==
    /\ stream = NewStream
    /\ metrics = NewUsageMetrics
    /\ cache = NewMemoryCache /\ now = 0 /\ cacheOps = 0
    /\ lastOp = NoOp /\ analyzeCalls = 0 /\ handed = {} /\ keyed = None /\ conc = None
    /\ chain = None /\ chainRuns = 0
    /\ calls = None /\ tokens = 0 /\ clock = 0 /\ httpLog = None
    /\ members = None /\ config = None /\ usage = None /\ retry = None /\ flight = None /\ rw = None /\ run = None

\* The steps of the goroutine running readStream.
StreamProducer ==
    \/ \E line \in LineKinds : StreamScanLine(line)
    \/ \E readErr \in BOOLEAN : StreamScanEnd(readErr)
    \/ StreamRecord
    \/ StreamSend
    \/ StreamClose

StreamNext ==
    \/ StreamOpen
    \/ StreamCancel
    \/ StreamProducer
    \/ StreamReceive

(***************************************************************************)
(* ProviderChain.Validate, Close and GetMetrics over members that are      *)
(* providers of any kind: a member validates or not, closes cleanly or     *)
(* not, and records requests and failures in its own UsageMetrics, which   *)
(* its GetMetrics hands out.                                               *)
(***************************************************************************)
MaxMembers == 2
MaxRecords == 2
MaxSnapshots == 1

\* Two members may carry one name.
MemberName(i) == IF i % 2 = 1 THEN "pa" ELSE "pb"

\* The error member i returns from Validate or Close when it fails.
MemberError(op, i) == <<op, ToString(i)>>

NewMember(i, invalid, failsClose) ==
    [Name |-> MemberName(i), invalid |-> invalid, failsClose |-> failsClose,
     metrics |-> NewUsageMetrics]

\* for _, provider := range c.providers { if err := provider.Validate(ctx);
\* err != nil { return err } }; return nil -- from member i on.
RECURSIVE ValidateFrom(_, _, _)
ValidateFrom(ps, i, called) ==
    IF i > Len(ps) THEN [ret |-> NilErr, called |-> called]
    ELSE IF ps[i].invalid
    THEN [ret |-> MemberError("validate", i), called |-> Append(called, i)]
    ELSE ValidateFrom(ps, i + 1, Append(called, i))

\* A faulty variant: only the first member is asked.
ChainValidateFirstOnly(ps) ==
    IF Len(ps) > 0 /\ ps[1].invalid
    THEN [ret |-> MemberError("validate", 1), called |-> <<1>>]
    ELSE [ret |-> NilErr, called |-> IF Len(ps) > 0 THEN <<1>> ELSE <<>>]

ChainValidate(ps) == ValidateFrom(ps, 1, <<>>)

\* A faulty variant: the loop of Close ends at the first error.
CloseGoesOnUntilError(errs) == errs = <<>>

\* The loop of Close goes on whatever the members have returned.
CloseGoesOn(errs) == TRUE

\* for _, provider := range c.providers { if err := provider.Close(); err !=
\* nil { errs = append(errs, err) } } -- from member i on.
RECURSIVE CloseFrom(_, _, _, _)
CloseFrom(ps, i, called, errs) ==
    IF i > Len(ps) \/ ~CloseGoesOn(errs) THEN [errs |-> errs, called |-> called]
    ELSE CloseFrom(ps, i + 1, Append(called, i),
                   IF ps[i].failsClose
                   THEN Append(errs, MemberError("close", i)) ELSE errs)

\* if len(errs) > 0 { return &ErrMultipleProviderErrors{Errors: errs} }; return nil
ChainClose(ps) ==
    LET r == CloseFrom(ps, 1, <<>>, <<>>)
    IN [nil |-> Len(r.errs) = 0, Errors |-> r.errs, called |-> r.called]

\* The provider part of Merge: every record of other is added to the record
\* of the same name, which is made when it is missing.
RECURSIVE MergeProviders(_, _, _)
MergeProviders(m, other, names) ==
    IF names = {} THEN m
    ELSE LET name == CHOOSE x \in names : TRUE
             m1 == getOrCreateProviderMetrics(m, name)
             o == other.ProviderMetrics[name]
         IN MergeProviders(
               [m1 EXCEPT !.ProviderMetrics[name].Requests = @ + o.Requests,
                          !.ProviderMetrics[name].SuccessfulRequests = @ + o.SuccessfulRequests,
                          !.ProviderMetrics[name].FailedRequests = @ + o.FailedRequests,
                          !.ProviderMetrics[name].TokensUsed = @ + o.TokensUsed],
               other, names \ {name})

\* m[k] += other[k] for every k of other.
RECURSIVE MergeCounts(_, _, _)
MergeCounts(f, g, keys) ==
    IF keys = {} THEN f
    ELSE LET k == CHOOSE x \in keys : TRUE
         IN MergeCounts(Bump(f, k, g[k]), g, keys \ {k})

Merge(m, other) ==
    LET m1 == [m EXCEPT !.TotalRequests = @ + other.TotalRequests,
                        !.SuccessfulRequests = @ + other.SuccessfulRequests,
                        !.FailedRequests = @ + other.FailedRequests,
                        !.CachedResponses = @ + other.CachedResponses,
                        !.TotalTokensUsed = @ + other.TotalTokensUsed]
        m2 == MergeProviders(m1, other, DOMAIN other.ProviderMetrics)
    IN [m2 EXCEPT !.RequestsByType = MergeCounts(@, other.RequestsByType,
                                                 DOMAIN other.RequestsByType),
                  !.ErrorsByType = MergeCounts(@, other.ErrorsByType,
                                               DOMAIN other.ErrorsByType)]

\* combined := NewUsageMetrics(); for each provider: combined.Merge(provider.GetMetrics())
RECURSIVE CombineFrom(_, _, _)
CombineFrom(ps, i, combined) ==
    IF i > Len(ps) THEN combined
    ELSE CombineFrom(ps, i + 1, Merge(combined, ps[i].metrics))

ChainGetMetrics(ps) == CombineFrom(ps, 1, NewUsageMetrics)

\* A faulty variant: the record of a provider in the merged metrics is the
\* record of the last member of that name itself.
MergedRecordShared(ps, name) ==
    LET of == {i \in DOMAIN ps : name \in DOMAIN ps[i].metrics.ProviderMetrics}
    IN CHOOSE i \in of : \A j \in of : j <= i

\* The object behind the record of a provider in the merged metrics: made by
\* getOrCreateProviderMetrics of the merged metrics, it belongs to no member
\* (member 0).
MergedRecord(ps, name) == 0

\* What the holder of a snapshot reads in it: a record that is a member's own
\* object shows what that member has recorded since.
Seen(snap, ps) ==
    [snap.m EXCEPT !.ProviderMetrics =
        [name \in DOMAIN snap.m.ProviderMetrics |->
            IF snap.object[name] = 0 THEN snap.m.ProviderMetrics[name]
            ELSE ps[snap.object[name]].metrics.ProviderMetrics[name]]]

NewMembers(ps) ==
    [providers |-> ps, snapshots |-> <<>>,
     last |-> [op |-> "New", ret |-> NilErr, nil |-> TRUE, Errors |-> <<>>,
               called |-> <<>>]]

MembersValidate ==
    /\ LET r == ChainValidate(members.providers)
       IN members' = [members EXCEPT !.last =
                         [op |-> "Validate", ret |-> r.ret, nil |-> r.ret = NilErr,
                          Errors |-> <<>>, called |-> r.called]]
    /\ UNCHANGED <<cacheVars, chainVars, copilotVars, stream, config, usage, retry, flight, rw, run>>

MembersClose ==
    /\ LET r == ChainClose(members.providers)
       IN members' = [members EXCEPT !.last =
                         [op |-> "Close", ret |-> NilErr, nil |-> r.nil,
                          Errors |-> r.Errors, called |-> r.called]]
    /\ UNCHANGED <<cacheVars, chainVars, copilotVars, stream, config, usage, retry, flight, rw, run>>

MembersGetMetrics ==
    /\ Len(members.snapshots) < MaxSnapshots
    /\ LET ps == members.providers
           m == ChainGetMetrics(ps)
           snap == [m |-> m,
                    object |-> [name \in DOMAIN m.ProviderMetrics |->
                                   MergedRecord(ps, name)]]
       IN members' = [members EXCEPT
                         !.snapshots = Append(@, [snap |-> snap, taken |-> Seen(snap, ps)]),
                         !.last = [op |-> "GetMetrics", ret |-> NilErr, nil |-> TRUE,
                                   Errors |-> <<>>, called |-> [i \in DOMAIN ps |-> i]]]
    /\ UNCHANGED <<cacheVars, chainVars, copilotVars, stream, config, usage, retry, flight, rw, run>>

\* The number of requests the members have recorded so far.
RECURSIVE Recorded(_, _)
Recorded(ps, i) ==
    IF i > Len(ps) THEN 0 ELSE ps[i].metrics.TotalRequests + Recorded(ps, i + 1)

\* Member i finishes a request of its own and records it.
MemberRecords(i, ok) ==
    /\ i \in DOMAIN members.providers
    /\ Recorded(members.providers, 1) < MaxRecords
    /\ members' = [members EXCEPT
                      !.providers[i].metrics =
                          IF ok THEN RecordRequest(@, MemberName(i), 1)
                          ELSE RecordFailure(@, MemberName(i), "request_failed"),
                      !.last = [op |-> "Record", ret |-> NilErr, nil |-> TRUE,
                                Errors |-> <<>>, called |-> <<i>>]]
    /\ UNCHANGED <<cacheVars, chainVars, copilotVars, stream, config, usage, retry, flight, rw, run>>

MembersInit ==
    /\ \E n \in 0..MaxMembers :
          \E invalid \in [1..n -> BOOLEAN], failsClose \in [1..n -> BOOLEAN] :
             members = NewMembers([i \in 1..n |-> NewMember(i, invalid[i], failsClose[i])])
    /\ cache = NewMemoryCache /\ now = 0 /\ cacheOps = 0
    /\ lastOp = NoOp /\ analyzeCalls = 0 /\ handed = {} /\ keyed = None /\ conc = None
    /\ chain = None /\ chainRuns = 0
    /\ calls = None /\ tokens = 0 /\ clock = 0 /\ httpLog = None
    /\ metrics = None
    /\ stream = None /\ config = None /\ usage = None /\ retry = None /\ flight = None /\ rw = None /\ run = None

MembersNext ==
    \/ MembersValidate
    \/ MembersClose
    \/ MembersGetMetrics
    \/ \E i \in 1..MaxMembers, ok \in BOOLEAN : MemberRecords(i, ok)

(***************************************************************************)
(* Config: ValidateConfig and GetEnabledProviders, applied to              *)
(* configurations drawn from small sets of providers and settings.         *)
(***************************************************************************)
MaxConfigProviders == 2
MaxEnabledProviders == 3
MaxPriority == 2

NoAuth == [Token |-> "", APIKey |-> "", Username |-> "", Password |-> "", AdditionalAuth |-> 0]

AuthConfigs ==
    {NoAuth, [NoAuth EXCEPT !.Token = "t"], [NoAuth EXCEPT !.Username = "u"],
     [NoAuth EXCEPT !.Username = "u", !.Password = "p"]}

ProviderConfig(name, type, enabled, priority, auth) ==
    [Name |-> name, Type |-> type, Enabled |-> enabled, Priority |-> priority,
     Auth |-> auth]

GoodProvider == ProviderConfig("a", "copilot", TRUE, 0, [NoAuth EXCEPT !.Token = "t"])

\* A well-formed provider and the providers that differ from it in one field.
ProviderConfigs ==
    {GoodProvider}
      \cup {[GoodProvider EXCEPT !.Name = n] : n \in {"", "b"}}
      \cup {[GoodProvider EXCEPT !.Type = t] : t \in {"", "bogus"}}
      \cup {[GoodProvider EXCEPT !.Auth = a] : a \in AuthConfigs}
      \cup {[GoodProvider EXCEPT !.Priority = q] : q \in {-1, 1}}

\* Size strings: none, "1MB" and "x".
SizeStrings == {<<>>, <<"1", "M", "B">>, <<"x">>}

CachingConfigs == [Enabled : BOOLEAN, TTL : {-1, 0}, MaxSize : SizeStrings]
RateLimitingConfigs == [RequestsPerMinute : {-1, 0}, TokensPerMinute : {-1, 0}]

Digits == {"0", "1", "2", "3", "4", "5", "6", "7", "8", "9"}

\* ParseSize fails on the empty string and on a string whose number, after
\* the suffix TB, GB, MB, KB or B is taken off, does not begin with a digit.
ParseSizeFails(str) ==
    IF str = <<>> THEN TRUE
    ELSE LET n == Len(str)
             cut == IF str[n] # "B" THEN 0
                    ELSE IF n >= 2 /\ str[n - 1] \in {"T", "G", "M", "K"} THEN 2
                    ELSE 1
             num == SubSeq(str, 1, n - cut)
         IN num = <<>> \/ num[1] \notin Digits

NoConfigError == [nil |-> TRUE, Field |-> "", Reason |-> ""]

\* &ErrInvalidConfiguration{Field: field, Reason: reason}
ErrInvalidConfiguration(field, reason) == [nil |-> FALSE, Field |-> field, Reason |-> reason]

ValidTypes == {"openai", "copilot", "anthropic", "custom"}

\* fmt.Sprintf("ai.providers[%d].<field>", i), i counted from 0
ProviderField(i, field) == "ai.providers[" \o ToString(i - 1) \o "]." \o field

validateAuth(auth, index) ==
    IF \/ auth.Token # ""
       \/ auth.APIKey # ""
       \/ (auth.Username # "" /\ auth.Password # "")
       \/ auth.AdditionalAuth > 0
    THEN NoConfigError
    ELSE ErrInvalidConfiguration(ProviderField(index, "auth"),
                                 "at least one authentication method must be provided")

\* if providerNames[provider.Name]
SeenBefore(names, name) == name \in names

\* The loop over config.AI.Providers, from provider i on.
RECURSIVE ValidateProviders(_, _, _)
ValidateProviders(ps, i, providerNames) ==
    IF i > Len(ps) THEN NoConfigError
    ELSE LET provider == ps[i]
         IN IF provider.Name = ""
            THEN ErrInvalidConfiguration(ProviderField(i, "name"), "provider name is required")
            ELSE IF SeenBefore(providerNames, provider.Name)
            THEN ErrInvalidConfiguration(ProviderField(i, "name"), "duplicate provider name")
            ELSE IF provider.Type = ""
            THEN ErrInvalidConfiguration(ProviderField(i, "type"), "provider type is required")
            ELSE IF provider.Type \notin ValidTypes
            THEN ErrInvalidConfiguration(ProviderField(i, "type"), "unsupported provider type")
            ELSE IF ~validateAuth(provider.Auth, i).nil
            THEN validateAuth(provider.Auth, i)
            ELSE IF provider.Priority < 0
            THEN ErrInvalidConfiguration(ProviderField(i, "priority"), "priority must be non-negative")
            ELSE ValidateProviders(ps, i + 1, providerNames \cup {provider.Name})

ValidateConfig(c) ==
    IF c.nil THEN ErrInvalidConfiguration("config", "config is nil")
    ELSE IF Len(c.Providers) = 0
    THEN ErrInvalidConfiguration("ai.providers", "at least one provider must be configured")
    ELSE IF ~ValidateProviders(c.Providers, 1, {}).nil
    THEN ValidateProviders(c.Providers, 1, {})
    ELSE IF c.Caching.Enabled /\ c.Caching.TTL < 0
    THEN ErrInvalidConfiguration("ai.caching.ttl", "TTL must be non-negative")
    ELSE IF c.Caching.Enabled /\ c.Caching.MaxSize # <<>> /\ ParseSizeFails(c.Caching.MaxSize)
    THEN ErrInvalidConfiguration("ai.caching.max_size", "invalid size format")
    ELSE IF c.RateLimiting.RequestsPerMinute < 0
    THEN ErrInvalidConfiguration("ai.rate_limiting.requests_per_minute",
                                 "requests_per_minute must be non-negative")
    ELSE IF c.RateLimiting.TokensPerMinute < 0
    THEN ErrInvalidConfiguration("ai.rate_limiting.tokens_per_minute",
                                 "tokens_per_minute must be non-negative")
    ELSE NoConfigError

\* for _, provider := range c.AI.Providers { if provider.Enabled { append } }
RECURSIVE EnabledFrom(_, _)
EnabledFrom(ps, i) ==
    IF i > Len(ps) THEN <<>>
    ELSE (IF ps[i].Enabled THEN <<ps[i]>> ELSE <<>>) \o EnabledFrom(ps, i + 1)

\* A faulty variant: nothing is ever exchanged.
OutOfOrderNever(x, y) == FALSE

\* if enabled[j].Priority < enabled[i].Priority, with x = enabled[i], y = enabled[j]
OutOfOrder(x, y) == y.Priority < x.Priority

Swap(seq, i, j) == [seq EXCEPT ![i] = seq[j], ![j] = seq[i]]

\* for j := i + 1; j < len(enabled); j++ { exchange when out of order }
RECURSIVE SortInner(_, _, _)
SortInner(enabled, i, j) ==
    IF j > Len(enabled) THEN enabled
    ELSE SortInner(IF OutOfOrder(enabled[i], enabled[j]) THEN Swap(enabled, i, j)
                   ELSE enabled, i, j + 1)

\* for i := 0; i < len(enabled); i++
RECURSIVE SortOuter(_, _)
SortOuter(enabled, i) ==
    IF i > Len(enabled) THEN enabled
    ELSE SortOuter(SortInner(enabled, i, i + 1), i + 1)

\* The slice returned is a new one: the list of the configuration stays.
GetEnabledProviders(c) ==
    [enabled |-> SortOuter(EnabledFrom(c.Providers, 1), 1), Providers |-> c.Providers]

NewConfig(nil, providers, caching, rateLimiting) ==
    [nil |-> nil, Providers |-> providers, Caching |-> caching,
     RateLimiting |-> rateLimiting, given |-> providers,
     op |-> "none", err |-> NoConfigError, enabled |-> <<>>]

NilConfig ==
    NewConfig(TRUE, <<>>, [Enabled |-> FALSE, TTL |-> 0, MaxSize |-> <<>>],
              [RequestsPerMinute |-> 0, TokensPerMinute |-> 0])

ConfigValidate ==
    /\ config.op = "none"
    /\ config' = [config EXCEPT !.op = "ValidateConfig", !.err = ValidateConfig(config)]
    /\ UNCHANGED <<cacheVars, chainVars, copilotVars, stream, members, usage, retry, flight, rw, run>>

ConfigGetEnabled ==
    /\ config.op = "none" /\ ~config.nil
    /\ LET r == GetEnabledProviders(config)
       IN config' = [config EXCEPT !.op = "GetEnabledProviders",
                                   !.enabled = r.enabled, !.Providers = r.Providers]
    /\ UNCHANGED <<cacheVars, chainVars, copilotVars, stream, members, usage, retry, flight, rw, run>>

ConfigInit ==
    /\ \/ config = NilConfig
       \/ \E n \in 0..MaxConfigProviders :
             \E ps \in [1..n -> ProviderConfigs], caching \in CachingConfigs,
                rl \in RateLimitingConfigs :
                config = NewConfig(FALSE, ps, caching, rl)
    /\ cache = NewMemoryCache /\ now = 0 /\ cacheOps = 0
    /\ lastOp = NoOp /\ analyzeCalls = 0 /\ handed = {} /\ keyed = None /\ conc = None
    /\ chain = None /\ chainRuns = 0
    /\ calls = None /\ tokens = 0 /\ clock = 0 /\ httpLog = None
    /\ metrics = None
    /\ stream = None /\ members = None /\ usage = None /\ retry = None /\ flight = None /\ rw = None /\ run = None

\* Providers with names of their own, enabled or not, of any priority.
EnabledInit ==
    /\ \E n \in 0..MaxEnabledProviders :
          \E on \in [1..n -> BOOLEAN], prio \in [1..n -> 0..MaxPriority] :
             config = NewConfig(FALSE,
                         [i \in 1..n |->
                             ProviderConfig(ProviderName(i), "openai", on[i], prio[i],
                                            [NoAuth EXCEPT !.APIKey = "k"])],
                         [Enabled |-> FALSE, TTL |-> 0, MaxSize |-> <<>>],
                         [RequestsPerMinute |-> 0, TokensPerMinute |-> 0])
    /\ cache = NewMemoryCache /\ now = 0 /\ cacheOps = 0
    /\ lastOp = NoOp /\ analyzeCalls = 0 /\ handed = {} /\ keyed = None /\ conc = None
    /\ chain = None /\ chainRuns = 0
    /\ calls = None /\ tokens = 0 /\ clock = 0 /\ httpLog = None
    /\ metrics = None
    /\ stream = None /\ members = None /\ usage = None /\ retry = None /\ flight = None /\ rw = None /\ run = None

ConfigNext == ConfigValidate

EnabledNext == ConfigGetEnabled \/ ConfigValidate

(***************************************************************************)
(* UsageMetrics under RecordRequest, RecordFailure, Reset and              *)
(* GetSuccessRate. A float64 is a fixed-point number of RateScale units,   *)
(* a quotient being cut to the unit.                                       *)
(***************************************************************************)
MaxRecordCalls == 4
MaxResets == 1
RateScale == 1000

MetricProviders == {"pa", "pb"}

\* A faulty variant: the per-provider records outlive the reset.
ResetKeepingProviders(m) ==
    [m EXCEPT !.TotalRequests = 0, !.SuccessfulRequests = 0, !.FailedRequests = 0,
              !.CachedResponses = 0, !.TotalTokensUsed = 0, !.AverageLatency = 0,
              !.RequestsByType = <<>>, !.ErrorsByType = <<>>]

\* m.TotalRequests = 0 ... m.ErrorsByType = make(map[string]int64)
Reset(m) ==
    [m EXCEPT !.TotalRequests = 0, !.SuccessfulRequests = 0, !.FailedRequests = 0,
              !.CachedResponses = 0, !.TotalTokensUsed = 0, !.AverageLatency = 0,
              !.ProviderMetrics = <<>>, !.RequestsByType = <<>>, !.ErrorsByType = <<>>]

\* A faulty variant: the rate of the failed requests.
GetSuccessRateOfFailed(m) ==
    IF m.TotalRequests = 0 THEN 0
    ELSE ((m.FailedRequests * RateScale) \div m.TotalRequests) * 100

\* float64(m.SuccessfulRequests) / float64(m.TotalRequests) * 100
GetSuccessRate(m) ==
    IF m.TotalRequests = 0 THEN 0
    ELSE ((m.SuccessfulRequests * RateScale) \div m.TotalRequests) * 100

NewUsage == [successes |-> 0, failures |-> 0, calls |-> 0, resets |-> 0,
             op |-> "New", rate |-> 0]

MetricsRecordRequest(provider) ==
    /\ usage.calls < MaxRecordCalls
    /\ metrics' = RecordRequest(metrics, provider, 1)
    /\ usage' = [usage EXCEPT !.successes = @ + 1, !.calls = @ + 1,
                              !.op = "RecordRequest"]
    /\ UNCHANGED <<cacheVars, chainVars, calls, tokens, clock, httpLog,
                   stream, members, config, retry, flight, rw, run>>

MetricsRecordFailure(provider) ==
    /\ usage.calls < MaxRecordCalls
    /\ metrics' = RecordFailure(metrics, provider, "timeout")
    /\ usage' = [usage EXCEPT !.failures = @ + 1, !.calls = @ + 1,
                              !.op = "RecordFailure"]
    /\ UNCHANGED <<cacheVars, chainVars, calls, tokens, clock, httpLog,
                   stream, members, config, retry, flight, rw, run>>

\* m.CachedResponses++
RecordCacheHit(m) == [m EXCEPT !.CachedResponses = @ + 1]

MetricsRecordCacheHit ==
    /\ usage.calls < MaxRecordCalls
    /\ metrics' = RecordCacheHit(metrics)
    /\ usage' = [usage EXCEPT !.calls = @ + 1, !.op = "RecordCacheHit"]
    /\ UNCHANGED <<cacheVars, chainVars, calls, tokens, clock, httpLog,
                   stream, members, config, retry, flight, rw, run>>

MetricsRecordLatency(provider) ==
    /\ usage.calls < MaxRecordCalls
    /\ metrics' = RecordLatency(metrics, provider, 2)
    /\ usage' = [usage EXCEPT !.calls = @ + 1, !.op = "RecordLatency"]
    /\ UNCHANGED <<cacheVars, chainVars, calls, tokens, clock, httpLog,
                   stream, members, config, retry, flight, rw, run>>

MetricsRecordRequestType ==
    /\ usage.calls < MaxRecordCalls
    /\ metrics' = RecordRequestType(metrics, "general")
    /\ usage' = [usage EXCEPT !.calls = @ + 1, !.op = "RecordRequestType"]
    /\ UNCHANGED <<cacheVars, chainVars, calls, tokens, clock, httpLog,
                   stream, members, config, retry, flight, rw, run>>

\* The metrics merged in: new ones, ones with a request of pa, and ones with
\* a request of pb and a failure of a provider not recorded here.
MergeOperands ==
    {NewUsageMetrics,
     RecordRequest(NewUsageMetrics, "pa", 1),
     RecordFailure(RecordRequest(NewUsageMetrics, "pb", 1), "pc", "auth")}

MetricsMerge(other) ==
    /\ usage.calls < MaxRecordCalls
    /\ metrics' = Merge(metrics, other)
    /\ usage' = [usage EXCEPT !.successes = @ + other.SuccessfulRequests,
                              !.failures = @ + other.FailedRequests,
                              !.calls = @ + 1, !.op = "Merge"]
    /\ UNCHANGED <<cacheVars, chainVars, calls, tokens, clock, httpLog,
                   stream, members, config, retry, flight, rw, run>>

MetricsReset ==
    /\ usage.resets < MaxResets
    /\ metrics' = Reset(metrics)
    /\ usage' = [usage EXCEPT !.successes = 0, !.failures = 0, !.resets = @ + 1,
                              !.op = "Reset"]
    /\ UNCHANGED <<cacheVars, chainVars, calls, tokens, clock, httpLog,
                   stream, members, config, retry, flight, rw, run>>

MetricsGetSuccessRate ==
    /\ usage' = [usage EXCEPT !.op = "GetSuccessRate", !.rate = GetSuccessRate(metrics)]
    /\ UNCHANGED <<cacheVars, chainVars, copilotVars, stream, members, config, retry, flight, rw, run>>

MetricsInit ==
    /\ metrics = NewUsageMetrics /\ usage = NewUsage
    /\ cache = NewMemoryCache /\ now = 0 /\ cacheOps = 0
    /\ lastOp = NoOp /\ analyzeCalls = 0 /\ handed = {} /\ keyed = None /\ conc = None
    /\ chain = None /\ chainRuns = 0
    /\ calls = None /\ tokens = 0 /\ clock = 0 /\ httpLog = None
    /\ stream = None /\ members = None /\ config = None /\ retry = None /\ flight = None /\ rw = None /\ run = None

MetricsNext ==
    \/ \E provider \in MetricProviders : MetricsRecordRequest(provider)
    \/ \E provider \in MetricProviders : MetricsRecordFailure(provider)
    \/ MetricsRecordCacheHit
    \/ \E provider \in MetricProviders : MetricsRecordLatency(provider)
    \/ MetricsRecordRequestType
    \/ \E other \in MergeOperands : MetricsMerge(other)
    \/ MetricsReset
    \/ MetricsGetSuccessRate

(***************************************************************************)
(* The retry decision of CopilotProvider on one failed round trip: the     *)
(* error doRequest makes of the outcome, and isRetryableError on it.       *)
(***************************************************************************)
HTTPStatuses == {"400", "401", "404", "429", "500", "503"}
BodyTexts == {"bad request", "unavailable", "timeout", "500"}
ErrorCodes == {"invalid_request", "rate_limited", "server_error"}
TransportTexts == {"timeout", "connection", "context canceled"}

\* client.Do failed, or the backend answered with a status other than 200
\* and a body that is or is not an ErrorResponse.
RoundTripOutcomes ==
    {[transport |-> TRUE, status |-> "", json |-> FALSE, code |-> "", text |-> t] :
        t \in TransportTexts}
      \cup {[transport |-> FALSE, status |-> st, json |-> FALSE, code |-> "", text |-> t] :
              st \in HTTPStatuses, t \in BodyTexts}
      \cup {[transport |-> FALSE, status |-> st, json |-> TRUE, code |-> c, text |-> t] :
              st \in HTTPStatuses, c \in ErrorCodes, t \in BodyTexts}

\* lastErr = err; if ctx.Err() != nil || !isRetryableError(err) { break }
RetryClassify ==
    /\ ~retry.decided
    /\ retry' = [retry EXCEPT !.decided = TRUE,
                              !.err = doRequestError(retry.outcome),
                              !.retried = isRetryableError(doRequestError(retry.outcome))]
    /\ UNCHANGED <<cacheVars, chainVars, copilotVars, stream, members, config, usage, flight, rw, run>>

RetryInit ==
    /\ \E f \in RoundTripOutcomes :
          retry = [outcome |-> f, decided |-> FALSE, err |-> NilErr, retried |-> FALSE]
    /\ cache = NewMemoryCache /\ now = 0 /\ cacheOps = 0
    /\ lastOp = NoOp /\ analyzeCalls = 0 /\ handed = {} /\ keyed = None /\ conc = None
    /\ chain = None /\ chainRuns = 0
    /\ calls = None /\ tokens = 0 /\ clock = 0 /\ httpLog = None
    /\ metrics = None
    /\ stream = None /\ members = None /\ config = None /\ usage = None /\ flight = None /\ rw = None /\ run = None

RetryNext == RetryClassify

(***************************************************************************)
(* CachedProvider.Analyze called by several goroutines with one request.   *)
(* Get and Set are each one step under c.mu; the call of the wrapped       *)
(* provider runs between them with no lock held.                           *)
(***************************************************************************)
MaxFlights == 2

Flights == 1..MaxFlights

FlightRequests == {r \in AnalyzeRequests : r.ID = "a"}

NewFlight == [pc |-> "start", resp |-> NoResponse, err |-> None]

\* if req.Options.UseCache { if cached, found := p.cache.Get(key); found { return cached, nil } }
FlightLookup(g) ==
    /\ flight.c[g].pc = "start"
    /\ LET look == IF LooksUp(flight.req)
                   THEN Get(cache, GenerateCacheKey(flight.req), now)
                   ELSE [c |-> cache, found |-> FALSE, resp |-> None]
       IN /\ cache' = look.c
          /\ flight' = [flight EXCEPT !.c[g] =
                           IF look.found THEN [@ EXCEPT !.pc = "done", !.resp = look.resp]
                           ELSE [@ EXCEPT !.pc = "call"]]
    /\ UNCHANGED <<now, cacheOps, lastOp, analyzeCalls, handed, keyed, conc,
                   chainVars, copilotVars, stream, members, config, usage, retry, rw, run>>

\* resp, err := p.provider.Analyze(ctx, req); if err != nil { return nil, err }
FlightCall(g, outcome) ==
    /\ flight.c[g].pc = "call"
    /\ analyzeCalls' = analyzeCalls + 1
    /\ flight' = IF outcome.ok
                 THEN [flight EXCEPT !.c[g].pc = "store",
                                     !.c[g].resp = MkResponse(flight.req.ID, outcome.len)]
                 ELSE [flight EXCEPT !.c[g].pc = "done", !.c[g].err = "provider error",
                                     !.failed = @ + 1]
    /\ UNCHANGED <<cache, now, cacheOps, lastOp, handed, keyed, conc,
                   chainVars, copilotVars, stream, members, config, usage, retry, rw, run>>

\* if req.Options.UseCache && resp != nil { _ = p.cache.Set(...) }; return resp, nil
FlightStore(g) ==
    /\ flight.c[g].pc = "store"
    /\ cache' = IF Stores(flight.req)
                THEN Set(cache, GenerateCacheKey(flight.req), flight.c[g].resp,
                         CachedTTL(flight.req), now).c
                ELSE cache
    /\ flight' = [flight EXCEPT !.c[g].pc = "done"]
    /\ UNCHANGED <<now, cacheOps, lastOp, analyzeCalls, handed, keyed, conc,
                   chainVars, copilotVars, stream, members, config, usage, retry, rw, run>>

FlightInit ==
    /\ \E req \in FlightRequests :
          flight = [req |-> req, c |-> [g \in Flights |-> NewFlight], failed |-> 0]
    /\ cache = NewMemoryCache /\ now = 0 /\ cacheOps = 0 /\ analyzeCalls = 0
    /\ lastOp = NoOp /\ handed = {} /\ keyed = None /\ conc = None
    /\ chain = None /\ chainRuns = 0
    /\ calls = None /\ tokens = 0 /\ clock = 0 /\ httpLog = None
    /\ metrics = None
    /\ stream = None /\ members = None /\ config = None /\ usage = None /\ retry = None /\ rw = None /\ run = None

FlightNext ==
    \E g \in Flights :
        \/ FlightLookup(g)
        \/ \E o \in ProviderOutcomes : FlightCall(g, o)
        \/ FlightStore(g)

(***************************************************************************)
(* The locking of UsageMetrics. Each UsageMetrics has a sync.RWMutex: a     *)
(* goroutine that calls Lock first announces itself, which keeps new       *)
(* readers out, and then waits until the readers inside have left; RLock   *)
(* waits while a writer holds the mutex or has announced itself. A method  *)
(* is the sequence of the lock operations it performs, deferred unlocks    *)
(* last, in reverse order.                                                 *)
(***************************************************************************)
MaxLockers == 3
MaxWrites == 2

Lockers == 1..MaxLockers
Mutexes == {"a", "b"}

\* Snapshot: RLock, then GetSuccessRate, GetCacheHitRate and
\* GetAllProviderMetrics, each taking and releasing the read lock again.
SnapshotLocks(m) ==
    <<<<"RLock", m>>,
      <<"RLock", m>>, <<"RUnlock", m>>,
      <<"RLock", m>>, <<"RUnlock", m>>,
      <<"RLock", m>>, <<"RUnlock", m>>,
      <<"RUnlock", m>>>>

\* RecordRequest, RecordFailure, RecordLatency: m.mu.Lock(); defer m.mu.Unlock()
RECURSIVE RecordLocks(_, _)
RecordLocks(m, n) ==
    IF n = 0 THEN <<>> ELSE <<<<"Lock", m>>, <<"Unlock", m>>>> \o RecordLocks(m, n - 1)

\* m.Merge(other): m.mu.Lock(), other.mu.RLock(), and the deferred unlocks.
MergeLocks(m, other) ==
    <<<<"Lock", m>>, <<"RLock", other>>, <<"RUnlock", other>>, <<"Unlock", m>>>>

NewMutex == [w |-> 0, pending |-> {}, r |-> [g \in Lockers |-> 0]]

NewLocker(ops) == [ops |-> ops, pc |-> 1, announced |-> FALSE]

Finished(l) == l.pc > Len(l.ops)

\* The next lock operation of goroutine g, if it has one.
NextLock(g, op) == ~Finished(rw.g[g]) /\ rw.g[g].ops[rw.g[g].pc][1] = op

Target(g) == rw.g[g].ops[rw.g[g].pc][2]

Readers(mu) == {g \in Lockers : mu.r[g] > 0}

\* Whether the goroutine can take its next step.
CanStep(g) ==
    \/ NextLock(g, "RLock") /\ rw.mu[Target(g)].w = 0 /\ rw.mu[Target(g)].pending = {}
    \/ NextLock(g, "RUnlock")
    \/ NextLock(g, "Lock") /\ ~rw.g[g].announced
    \/ NextLock(g, "Lock") /\ rw.g[g].announced
          /\ rw.mu[Target(g)].w = 0 /\ Readers(rw.mu[Target(g)]) = {}
    \/ NextLock(g, "Unlock")

RWRLock(g) ==
    /\ NextLock(g, "RLock") /\ CanStep(g)
    /\ rw' = [rw EXCEPT !.mu[Target(g)].r[g] = @ + 1, !.g[g].pc = @ + 1]
    /\ UNCHANGED <<cacheVars, chainVars, copilotVars, stream, members, config, usage, retry, flight, run>>

RWRUnlock(g) ==
    /\ NextLock(g, "RUnlock")
    /\ rw' = [rw EXCEPT !.mu[Target(g)].r[g] = @ - 1, !.g[g].pc = @ + 1]
    /\ UNCHANGED <<cacheVars, chainVars, copilotVars, stream, members, config, usage, retry, flight, run>>

\* Lock announces the writer.
RWLockAnnounce(g) ==
    /\ NextLock(g, "Lock") /\ ~rw.g[g].announced
    /\ rw' = [rw EXCEPT !.mu[Target(g)].pending = @ \cup {g}, !.g[g].announced = TRUE]
    /\ UNCHANGED <<cacheVars, chainVars, copilotVars, stream, members, config, usage, retry, flight, run>>

\* Lock returns once no reader and no writer is inside.
RWLockAcquire(g) ==
    /\ NextLock(g, "Lock") /\ rw.g[g].announced /\ CanStep(g)
    /\ rw' = [rw EXCEPT !.mu[Target(g)].pending = @ \ {g}, !.mu[Target(g)].w = g,
                        !.g[g].announced = FALSE, !.g[g].pc = @ + 1]
    /\ UNCHANGED <<cacheVars, chainVars, copilotVars, stream, members, config, usage, retry, flight, run>>

RWUnlock(g) ==
    /\ NextLock(g, "Unlock")
    /\ rw' = [rw EXCEPT !.mu[Target(g)].w = 0, !.g[g].pc = @ + 1]
    /\ UNCHANGED <<cacheVars, chainVars, copilotVars, stream, members, config, usage, retry, flight, run>>

\* The scenarios: a Snapshot of a beside goroutines recording on a; a.Merge(b)
\* beside b.Merge(a) and a goroutine recording on a; a.Merge(a); a.Merge(b)
\* beside goroutines recording on a or b.
LockScenarios ==
    {[kind |-> "snapshot",
      g |-> [g \in Lockers |-> IF g = 1 THEN NewLocker(SnapshotLocks("a"))
                               ELSE NewLocker(RecordLocks("a", n[g]))]] :
        n \in [Lockers -> 0..MaxWrites]}
    \cup {[kind |-> "merge",
           g |-> [g \in Lockers |-> IF g = 1 THEN NewLocker(MergeLocks("a", "b"))
                                    ELSE IF g = 2 THEN NewLocker(MergeLocks("b", "a"))
                                    ELSE NewLocker(RecordLocks("a", n))]] :
             n \in 0..MaxWrites}
    \cup {[kind |-> "selfmerge",
           g |-> [g \in Lockers |-> IF g = 1 THEN NewLocker(MergeLocks("a", "a"))
                                    ELSE NewLocker(<<>>)]]}
    \cup {[kind |-> "onemerge",
           g |-> [g \in Lockers |-> IF g = 1 THEN NewLocker(MergeLocks("a", "b"))
                                    ELSE NewLocker(RecordLocks(m[g], 1))]] :
             m \in [Lockers -> Mutexes]}

LocksInit ==
    /\ \E sc \in LockScenarios :
          rw = [kind |-> sc.kind, g |-> sc.g, mu |-> [m \in Mutexes |-> NewMutex]]
    /\ cache = NewMemoryCache /\ now = 0 /\ cacheOps = 0 /\ analyzeCalls = 0
    /\ lastOp = NoOp /\ handed = {} /\ keyed = None /\ conc = None
    /\ chain = None /\ chainRuns = 0
    /\ calls = None /\ tokens = 0 /\ clock = 0 /\ httpLog = None
    /\ metrics = None
    /\ stream = None /\ members = None /\ config = None /\ usage = None /\ retry = None
    /\ flight = None /\ run = None

LocksNext ==
    \E g \in Lockers :
        RWRLock(g) \/ RWRUnlock(g) \/ RWLockAnnounce(g) \/ RWLockAcquire(g) \/ RWUnlock(g)

(***************************************************************************)
(* Checker.Run. The cluster holds a list of installed releases; the Helm   *)
(* client keeps a repository file on disk; the Git and GitHub clients act  *)
(* on a clone in a temporary directory and on the remote repository. What  *)
(* the run does to files, to the repository and to GitHub is recorded in   *)
(* run.effects, one record per call that succeeded.                        *)
(***************************************************************************)
MaxReleases == 2

ChartNames == {"a", "b"}

\* Version strings as their bytes: "v0.0.1", "0.0.2", "0.0.10".
Versions == {<<118, 48, 46, 48, 46, 49>>, <<48, 46, 48, 46, 50>>,
             <<48, 46, 48, 46, 49, 48>>}

Releases == [Chart : ChartNames, Version : Versions]

ReleaseLists == UNION {[1..n -> Releases] : n \in 0..MaxReleases}

CheckerConfigs ==
    [DryRun : BOOLEAN, ExcludeCharts : {{}, {"b"}}, IncludeCharts : {{}, {"a"}}]

\* Go's comparison of strings: byte by byte, a prefix before what extends it.
RECURSIVE StringLess(_, _)
StringLess(a, b) ==
    IF b = <<>> THEN FALSE
    ELSE IF a = <<>> THEN TRUE
    ELSE IF Head(a) # Head(b) THEN Head(a) < Head(b)
    ELSE StringLess(Tail(a), Tail(b))

\* strings.TrimPrefix(s, "v")
TrimPrefixV(s) == IF s # <<>> /\ Head(s) = 118 THEN Tail(s) ELSE s

\* return latest != current && latest > current, both without their "v"
isNewerVersion(latest, current) ==
    /\ TrimPrefixV(latest) # TrimPrefixV(current)
    /\ StringLess(TrimPrefixV(current), TrimPrefixV(latest))

isExcluded(cfg, chartName) == chartName \in cfg.ExcludeCharts

isIncluded(cfg, chartName) ==
    cfg.IncludeCharts = {} \/ chartName \in cfg.IncludeCharts

\* helm.Client.GetLatestChartVersion: always version "0.0.2", never an error.
GetLatestChartVersion(chartName) == <<48, 46, 48, 46, 50>>

Effect(kind, what) == [kind |-> kind, what |-> what]

\* helm.Client.UpdateRepositories: the configuration directory is created;
\* a missing repository file is written empty and nothing is fetched; with
\* a repository file the index of each repository is downloaded. When the
\* directory cannot be created nothing else is done.
UpdateRepositories(repoFile, writable) ==
    IF ~writable THEN [repoFile |-> repoFile, effects |-> {}]
    ELSE IF repoFile = "missing"
    THEN [repoFile |-> "present",
          effects |-> {Effect("MkdirAll", "helm"), Effect("WriteFile", "helm")}]
    ELSE [repoFile |-> repoFile,
          effects |-> {Effect("MkdirAll", "helm"), Effect("DownloadIndexFile", "helm")}]

\* The loop body of checkForUpdates for one release: the updates afterwards.
checkRelease(cfg, updates, release) ==
    IF isExcluded(cfg, release.Chart) THEN updates
    ELSE IF cfg.IncludeCharts # {} /\ ~isIncluded(cfg, release.Chart) THEN updates
    ELSE IF isNewerVersion(GetLatestChartVersion(release.Chart), release.Version)
    THEN Append(updates, [Release |-> release,
                          CurrentVersion |-> release.Version,
                          LatestVersion |-> GetLatestChartVersion(release.Chart)])
    ELSE updates

\* A faulty variant: the updates are processed whatever the mode.
ProcessesAlways(cfg) == TRUE

\* if !c.config.Checker.DryRun { return c.processUpdates(ctx, updates) }
Processes(cfg) == ~cfg.DryRun

\* The calls of processUpdate in their order; each can fail, which ends the
\* update, and an existing pull request ends it before the branch is made.
ProcessSteps ==
    <<"CheckIfPRExists", "CreateBranch", "UpdateFile", "CommitChanges",
      "PushBranch", "CreatePullRequest">>

\* How far one processUpdate gets: the number of calls that succeed (with
\* only the first succeeding when the pull request exists).
ProcessOutcomes == 0..Len(ProcessSteps)

\* What processUpdate does for an update when its first n calls succeed.
processUpdate(update, n) ==
    {Effect(ProcessSteps[k], update.Release.Chart) : k \in 2..n}

NewRun(cfg, installed, repoFile) ==
    [cfg |-> cfg, installed |-> installed, repoFile |-> repoFile,
     pc |-> "ListReleases", releases |-> <<>>, i |-> 0, updates |-> <<>>,
     effects |-> {}, ret |-> None]

\* releases, err := c.helmClient.ListReleases(ctx)
RunListReleases(ok) ==
    /\ run.pc = "ListReleases"
    /\ run' = IF ok
              THEN [run EXCEPT !.releases = run.installed, !.pc = "UpdateRepositories"]
              ELSE [run EXCEPT !.ret = "failed to list releases", !.pc = "done"]
    /\ UNCHANGED <<cacheVars, chainVars, copilotVars, stream, members, config,
                   usage, retry, flight, rw>>

\* checkForUpdates, up to its loop: an error of UpdateRepositories is logged.
RunUpdateRepositories(writable) ==
    /\ run.pc = "UpdateRepositories"
    /\ LET r == UpdateRepositories(run.repoFile, writable)
       IN run' = [run EXCEPT !.repoFile = r.repoFile,
                             !.effects = @ \cup r.effects,
                             !.i = 1, !.pc = "checkForUpdates"]
    /\ UNCHANGED <<cacheVars, chainVars, copilotVars, stream, members, config,
                   usage, retry, flight, rw>>

\* One iteration of the loop of checkForUpdates.
RunCheckRelease ==
    /\ run.pc = "checkForUpdates"
    /\ run.i <= Len(run.releases)
    /\ run' = [run EXCEPT !.updates = checkRelease(run.cfg, @, run.releases[run.i]),
                          !.i = @ + 1]
    /\ UNCHANGED <<cacheVars, chainVars, copilotVars, stream, members, config,
                   usage, retry, flight, rw>>

\* Run after checkForUpdates: nothing to do, or on to processUpdates, or the
\* dry run's log lines; the first and the last return nil.
RunDecide ==
    /\ run.pc = "checkForUpdates"
    /\ run.i > Len(run.releases)
    /\ run' = IF run.updates # <<>> /\ Processes(run.cfg)
              THEN [run EXCEPT !.pc = "CloneRepository"]
              ELSE [run EXCEPT !.ret = "nil", !.pc = "done"]
    /\ UNCHANGED <<cacheVars, chainVars, copilotVars, stream, members, config,
                   usage, retry, flight, rw>>

\* processUpdates, up to its loop.
RunCloneRepository(ok) ==
    /\ run.pc = "CloneRepository"
    /\ run' = IF ok
              THEN [run EXCEPT !.effects = @ \cup {Effect("CloneRepository", "git")},
                               !.i = 1, !.pc = "processUpdates"]
              ELSE [run EXCEPT !.ret = "failed to clone repository", !.pc = "done"]
    /\ UNCHANGED <<cacheVars, chainVars, copilotVars, stream, members, config,
                   usage, retry, flight, rw>>

\* One iteration of the loop of processUpdates: an error is logged.
RunProcessUpdate(n) ==
    /\ run.pc = "processUpdates"
    /\ run.i <= Len(run.updates)
    /\ run' = [run EXCEPT !.effects = @ \cup processUpdate(run.updates[run.i], n),
                          !.i = @ + 1]
    /\ UNCHANGED <<cacheVars, chainVars, copilotVars, stream, members, config,
                   usage, retry, flight, rw>>

\* The end of processUpdates: the deferred os.RemoveAll(repoPath), return nil.
RunRemoveAll ==
    /\ run.pc = "processUpdates"
    /\ run.i > Len(run.updates)
    /\ run' = [run EXCEPT !.effects = @ \cup {Effect("RemoveAll", "git")},
                          !.ret = "nil", !.pc = "done"]
    /\ UNCHANGED <<cacheVars, chainVars, copilotVars, stream, members, config,
                   usage, retry, flight, rw>>

RunInit ==
    /\ \E cfg \in CheckerConfigs, installed \in ReleaseLists,
          repoFile \in {"missing", "present"} :
          run = NewRun(cfg, installed, repoFile)
    /\ cache = NewMemoryCache /\ now = 0 /\ cacheOps = 0 /\ analyzeCalls = 0
    /\ lastOp = NoOp /\ handed = {} /\ keyed = None /\ conc = None
    /\ chain = None /\ chainRuns = 0
    /\ calls = None /\ tokens = 0 /\ clock = 0 /\ httpLog = None
    /\ metrics = None
    /\ stream = None /\ members = None /\ config = None /\ usage = None /\ retry = None
    /\ flight = None /\ rw = None

RunNext ==
    \/ \E ok \in BOOLEAN : RunListReleases(ok)
    \/ \E writable \in BOOLEAN : RunUpdateRepositories(writable)
    \/ RunCheckRelease
    \/ RunDecide
    \/ \E ok \in BOOLEAN : RunCloneRepository(ok)
    \/ \E n \in ProcessOutcomes : RunProcessUpdate(n)
    \/ RunRemoveAll

SpecCache == CacheInit /\ [][CacheNext]_vars

SpecCached == CacheInit /\ [][CachedNext]_vars

SpecReplace == CacheInit /\ [][ReplaceNext]_vars

SpecKey == KeyInit /\ [][KeyNext]_vars

SpecConc == ConcInit /\ [][ConcNext]_vars

SpecStream == StreamInit /\ [][StreamNext]_vars

\* The goroutine of readStream is scheduled and the server goes on sending or
\* ends the body; the caller is free to stop receiving.
SpecStreamFair == SpecStream /\ WF_vars(StreamOpen) /\ WF_vars(StreamProducer)

SpecMembers == MembersInit /\ [][MembersNext]_vars

SpecConfig == ConfigInit /\ [][ConfigNext]_vars

SpecEnabled == EnabledInit /\ [][EnabledNext]_vars

SpecMetrics == MetricsInit /\ [][MetricsNext]_vars

SpecRetry == RetryInit /\ [][RetryNext]_vars

SpecFlight == FlightInit /\ [][FlightNext]_vars

SpecLocks == LocksInit /\ [][LocksNext]_vars

SpecRun == RunInit /\ [][RunNext]_vars

SpecChain == ChainInit /\ [][ChainNext]_vars

SpecCopilot == CopilotInit /\ [][CopilotNext]_vars

(***************************************************************************)
(* Properties.                                                             *)
(***************************************************************************)
RECURSIVE SumSizes(_, _)
SumSizes(items, keys) ==
    IF keys = {} THEN 0
    ELSE LET k == CHOOSE x \in keys : TRUE
         IN items[k].size + SumSizes(items, keys \ {k})

\* The summed estimated size of the entries the cache holds.
HeldSize(c) == SumSizes(c.items, DOMAIN c.items)

\* C1: after any sequence of Set, Get, Delete, Clear and CleanupExpired the
\* summed size of the entries held never exceeds maxSize.
C1_ByteBudget == HeldSize(cache) <= maxSize

Last(seq) == seq[Len(seq)]

\* C2: the members are tried in list order, nothing is invoked after a
\* success, and a successful call returns exactly the response of the member
\* that succeeded.
C2_FirstSuccessVerbatim ==
    /\ Len(chain.invoked) <= Len(chain.providers)
    /\ \A k \in 1..Len(chain.invoked) : chain.invoked[k] = chain.providers[k]
    /\ \A k \in 1..(Len(chain.answers) - 1) : ~chain.answers[k].ok
    /\ (chain.pc = "done" /\ chain.err = NoChainErr) =>
          /\ Len(chain.answers) >= 1
          /\ Last(chain.answers).ok
          /\ chain.resp = Last(chain.answers).resp
          /\ chain.resp.Provider = ProviderName(Last(chain.invoked))

\* C2 witness: the second of three members succeeded and the third was not tried.
C2_Witness ==
    /\ chain.pc = "done" /\ chain.err = NoChainErr
    /\ Len(chain.providers) = 3 /\ chain.invoked = <<1, 2>>
    /\ chain.resp = chain.answers[2].resp /\ chain.resp.Provider = "p2"

AllFailed(ch) ==
    /\ Len(ch.answers) = Len(ch.providers)
    /\ \A k \in 1..Len(ch.answers) : ~ch.answers[k].ok

\* C3: the call ends with all-providers-failed, wrapping the last member's
\* error, exactly when every member returned an error; no error of a member
\* ends the loop early or is returned in its place.
C3_AllProvidersFailed ==
    /\ chain.pc = "running" =>
          /\ chain.next = Len(chain.answers) + 1
          /\ \A k \in 1..Len(chain.answers) : ~chain.answers[k].ok
    /\ chain.pc = "done" =>
          /\ (chain.err # NoChainErr) <=> AllFailed(chain)
          /\ (chain.err # NoChainErr) =>
                /\ chain.err.kind = "ErrAllProvidersFailed"
                /\ chain.err.LastError =
                      IF Len(chain.answers) = 0 THEN "nil" ELSE Last(chain.answers).err

\* C3 witness: three members failed, the first with a permanent error.
C3_Witness ==
    /\ chain.pc = "done" /\ chain.err.kind = "ErrAllProvidersFailed"
    /\ Len(chain.answers) = 3
    /\ chain.answers[1].err = "ErrAuthenticationFailed"
    /\ chain.err.LastError = chain.answers[3].err

\* Whether a Get of the key would miss in cache c at time t.
Misses(c, key, t) == key \notin DOMAIN c.items \/ t > c.items[key].expiresAt

\* C4: CachedProvider.Analyze invokes the wrapped provider exactly when
\* UseCache is false or the key misses; a hit is answered with Cached=true and
\* a fresh answer with Cached=false; a fresh answer that fits the budget is
\* stored, so that the same request sent again straight away is a hit; with
\* UseCache=false the cache is left as it was.
C4_CachedProviderCalls ==
    [][(lastOp'.op = "Analyze" /\ cacheOps' = cacheOps + 1) =>
        LET req == lastOp'.req
            key == GenerateCacheKey(req)
            called == ~req.UseCache \/ Misses(cache, key, now)
        IN /\ analyzeCalls' = IF called THEN analyzeCalls + 1 ELSE analyzeCalls
           /\ ~req.UseCache => cache' = cache
           /\ ~called => /\ lastOp'.err = None
                         /\ lastOp'.resp = [cache.items[key].response EXCEPT !.Cached = TRUE]
           /\ (called /\ lastOp'.err = None) => lastOp'.resp.Cached = FALSE
           /\ (called /\ lastOp'.err = None /\ req.UseCache
                 /\ calculateSize(lastOp'.resp) <= maxSize) =>
                 /\ ~Misses(cache', key, now)
                 /\ cache'.items[key].response = lastOp'.resp
           /\ (lastOp.op = "Analyze" /\ lastOp.req = req /\ req.UseCache
                 /\ lastOp.err = None /\ ~Misses(cache, key, now)) =>
                 /\ analyzeCalls' = analyzeCalls
                 /\ lastOp'.resp.Cached
      ]_vars

\* C4 witness: two identical requests with UseCache=true, one call of the
\* wrapped provider, the second answer marked as cached.
C4_Witness ==
    /\ cacheOps = 2 /\ analyzeCalls = 1
    /\ lastOp.op = "Analyze" /\ lastOp.req.UseCache /\ lastOp.found
    /\ lastOp.resp.Cached

RECURSIVE SumLog(_, _)
SumLog(log, ts) ==
    IF ts = {} THEN 0
    ELSE LET t == CHOOSE x \in ts : TRUE
         IN log[t] + SumLog(log, ts \ {t})

\* The number of HTTP requests begun in the minute that starts at t.
StartedInMinute(t) ==
    SumLog(httpLog, {u \in t..(t + RateLimitPerMinute - 1) : u <= MaxClock})

\* C5: at most RateLimitPerMinute HTTP requests begin within any rolling
\* minute, retries included.
C5_RateCeiling == \A t \in 0..MaxClock : StartedInMinute(t) <= RateLimitPerMinute

\* The answers that are permanent failures: a bad request, whatever its body
\* says.
PermanentFailures == {f \in Failures : ~f.transport /\ f.status = "400"}

\* C6: another invocation follows a failed one only if its error is
\* retryable and fewer than MaxRetries retries have been made; a call makes at
\* most MaxRetries+1 invocations; a permanent failure ends the call at once,
\* after that one invocation, with its error.
C6_RetryOnlyRetryable ==
    [][\A g \in Callers :
        /\ calls'[g].tries <= MaxRetries + 1
        /\ (calls[g].pc = "request" /\ calls[g].tries > 0) =>
              /\ isRetryableError(calls[g].err)
              /\ calls[g].tries - 1 < MaxRetries
        /\ (calls'[g].tries = calls[g].tries + 1
              /\ calls'[g].err \in {doRequestError(f) : f \in PermanentFailures}) =>
              /\ calls'[g].pc = "done"
              /\ calls'[g].ret = calls'[g].err
      ]_vars

\* The retry settings of RetryConfig, in units of the retry delay.
InitialDelay == RetryDelay
Multiplier == 2
MaxDelay == 30

Min(a, b) == IF a < b THEN a ELSE b

\* C7: the wait before the k-th retry is
\* min(MaxDelay, InitialDelay * Multiplier^(k-1)).
C7_GeometricBackoff ==
    \A g \in Callers :
        calls[g].pc = "backoff" =>
            calls[g].delay =
                Min(MaxDelay, InitialDelay * Multiplier ^ (calls[g].attempt - 1))

\* A call of Analyze whose MaxRetries+1 invocations all failed with a
\* retryable error.
Exhausted(call) ==
    /\ call.pc = "done" /\ call.kind = "Analyze" /\ ~call.ok
    /\ call.tries = MaxRetries + 1 /\ call.sent = MaxRetries + 1
    /\ isRetryableError(call.err)

IsRetryExhausted(err) == Contains(err, "retry exhausted")

\* C8 as stated: after exhausting its retries Analyze returns the last error
\* annotated as retry-exhausted.
C8_AnnotatedExhaustion ==
    \A g \in Callers : Exhausted(calls[g]) => IsRetryExhausted(calls[g].ret)

\* C8 as amended: after exhausting its retries Analyze returns the error of
\* the last invocation as it is, with no annotation.
C8_LastErrorUnchanged ==
    \A g \in Callers :
        Exhausted(calls[g]) =>
            /\ calls[g].ret = calls[g].err
            /\ calls[g].ret \in {doRequestError(f) : f \in Failures}

\* C8 witness: a call that made all its invocations and got 503 each time.
C8_Witness ==
    \E g \in Callers :
        Exhausted(calls[g]) /\ calls[g].ret = <<"HTTP", "503", "unavailable">>

\* C9: a call whose context is done while it waits for a token returns an
\* error and has issued no HTTP request; an HTTP request is issued only by a
\* call that holds its token.
C9_TokenBeforeRequest ==
    [][\A g \in Callers :
        /\ (calls[g].pc = "wait" /\ calls[g].cancelled /\ calls'[g] # calls[g]) =>
              /\ calls'[g].pc = "done" /\ ~calls'[g].ok
              /\ calls'[g].ret # NilErr
              /\ calls'[g].sent = 0 /\ calls'[g].tries = 0
        /\ calls'[g].sent > calls[g].sent => calls[g].hasToken
        /\ httpLog' # httpLog =>
              \E h \in Callers : calls[h].hasToken /\ calls'[h].sent = calls[h].sent + 1
      ]_vars

\* C9 witness: a call cancelled in the wait has returned the rate-limit error
\* while the other call has issued a request.
C9_Witness ==
    \E g, h \in Callers :
        /\ calls[g].pc = "done" /\ calls[g].via = "rate_limit" /\ calls[g].sent = 0
        /\ calls[g].ret = <<"rate limit wait failed", "context canceled">>
        /\ calls[h].sent > 0

\* C10: a call whose context is done during a backoff wait can return at
\* once, without waiting for the timer; while the timer has not fired its next
\* step is to return the context's error with no further invocation; and in
\* every case it issues no further HTTP request, enters no further backoff
\* and ends with a cancellation error.
C10_CancelDuringBackoff ==
    /\ [](\A g \in Callers :
            (calls[g].pc = "backoff" /\ calls[g].cancelled) =>
                ENABLED BackoffCancelled(g))
    /\ [][\A g \in Callers :
            /\ (calls[g].pc = "backoff" /\ calls[g].cancelled
                   /\ clock < calls[g].deadline /\ calls'[g] # calls[g]) =>
                  /\ calls'[g].pc = "done" /\ ~calls'[g].ok
                  /\ calls'[g].ret = CtxErr
                  /\ calls'[g].tries = calls[g].tries
            /\ (calls[g].pc \in {"backoff", "request"} /\ calls[g].cancelled
                   /\ calls[g].attempt > 0) =>
                  /\ calls'[g].sent = calls[g].sent
                  /\ calls'[g].attempt = calls[g].attempt
                  /\ calls'[g].pc = "done" =>
                        ~calls'[g].ok /\ Contains(calls'[g].ret, "context canceled")
          ]_vars

\* C10 witness: a call cancelled in its first backoff returned the context's
\* error after one invocation, with retries left.
C10_Witness ==
    \E g \in Callers :
        /\ calls[g].pc = "done" /\ calls[g].via = "backoff_cancelled"
        /\ calls[g].ret = CtxErr /\ calls[g].tries = 1 /\ calls[g].tries <= MaxRetries

\* The Analyze calls that have passed a point where the call records itself
\* or returns, and the AnalyzeStream calls that recorded a failure.
AnalyzeFinished == {g \in Callers : calls[g].kind = "Analyze" /\ calls[g].pc \in {"latency", "done"}}
AnalyzeSucceeded == {g \in AnalyzeFinished : calls[g].pc = "latency" \/ calls[g].ok}
StreamFailed == {g \in Callers : calls[g].kind = "AnalyzeStream" /\ calls[g].pc = "done" /\ ~calls[g].ok}

\* The per-provider record of the provider, zero when it does not exist yet.
ProviderRecord(m, name) ==
    IF name \in DOMAIN m.ProviderMetrics THEN m.ProviderMetrics[name]
    ELSE NewProviderMetrics(name)

\* C11: every Analyze call that has returned, with a response or an error,
\* has added exactly one to TotalRequests and exactly one to either
\* SuccessfulRequests or FailedRequests, on the aggregate counters and on the
\* provider's record (the failures recorded by AnalyzeStream calls set apart).
C11_EveryCallCounted ==
    LET pm == ProviderRecord(metrics, CopilotName)
        n == Cardinality(AnalyzeFinished)
        ok == Cardinality(AnalyzeSucceeded)
        st == Cardinality(StreamFailed)
    IN /\ metrics.TotalRequests = n + st
       /\ metrics.SuccessfulRequests = ok
       /\ metrics.FailedRequests = (n - ok) + st
       /\ pm.Requests = n + st
       /\ pm.SuccessfulRequests = ok
       /\ pm.FailedRequests = (n - ok) + st

\* The latency samples folded into the average so far: the Analyze calls that
\* have returned their response.
LatencySamples == {g \in Callers : calls[g].kind = "Analyze" /\ calls[g].pc = "done" /\ calls[g].ok}

\* C12: when a successful Analyze records its latency d, the running average
\* becomes (oldAvg*n + d)/(n+1), n being the number of samples recorded before
\* this one, on the aggregate and on the provider's record; so the first
\* sample makes the average d.
C12_RunningAverage ==
    [][\A g \in Callers :
        (calls[g].pc = "latency" /\ calls'[g].pc = "done") =>
            LET n == Cardinality(LatencySamples)
                d == calls[g].duration
                old == metrics.AverageLatency
                pold == ProviderRecord(metrics, CopilotName).AverageLatency
            IN /\ metrics'.AverageLatency = (old * n + d) \div (n + 1)
               /\ ProviderRecord(metrics', CopilotName).AverageLatency =
                     (pold * n + d) \div (n + 1)
      ]_vars

\* The step is a call of the cache operation op.
CacheStep(op) == lastOp'.op = op /\ cacheOps' = cacheOps + 1

\* C13: Get returns the entry exactly while the time is not past the expiry,
\* which is the time of the Set that stored it plus its ttl; no operation
\* other than a Set of the key moves the expiry, a hit least of all; a Get
\* that finds the entry past its expiry deletes it, counts a miss and returns
\* not-found.
C13_AbsoluteTTL ==
    [][/\ CacheStep("Get") =>
             LET k == lastOp'.key
             IN IF k \notin DOMAIN cache.items THEN ~lastOp'.found
                ELSE IF now <= cache.items[k].expiresAt
                THEN /\ lastOp'.found
                     /\ cache'.items = cache.items
                     /\ cache'.stats.Hits = cache.stats.Hits + 1
                ELSE /\ ~lastOp'.found /\ lastOp'.resp = None
                     /\ k \notin DOMAIN cache'.items
                     /\ cache'.stats.Misses = cache.stats.Misses + 1
       /\ (CacheStep("Set") /\ lastOp'.err = None) =>
             cache'.items[lastOp'.key].expiresAt = now + lastOp'.ttl
       /\ \A k \in (DOMAIN cache.items) \cap (DOMAIN cache'.items) :
             (~CacheStep("Set") \/ lastOp'.key # k) =>
                 cache'.items[k].expiresAt = cache.items[k].expiresAt
      ]_vars

\* C13 witness: an entry was stored, hit by a Get, and after its expiry a
\* Get of the same key found it gone: one hit, one miss, nothing left.
C13_Witness ==
    /\ cacheOps = 3 /\ lastOp.op = "Get" /\ ~lastOp.found
    /\ cache.stats.Hits = 1 /\ cache.stats.Misses = 1
    /\ DOMAIN cache.items = {}

\* The keys of lru from position i on: the i-th most recent and all older.
Older(lru, i) == {lru[j] : j \in i..Len(lru)}

\* C14: the LRU list is kept in order of last access (a Set that stores or a
\* Get that hits moves the key to the front, nothing else reorders it); a Set
\* that stores evicts a tail of that list, oldest first, exactly as far as is
\* needed for the new entry to fit the budget; each removal adds one to the
\* eviction counter.
C14_EvictsLeastRecent ==
    [][/\ (CacheStep("Get") /\ lastOp'.found) =>
             cache'.lru = <<lastOp'.key>> \o RemoveKey(cache.lru, lastOp'.key)
       /\ (CacheStep("Set") /\ lastOp'.err = None) =>
             LET k == lastOp'.key
                 rest == RemoveKey(cache.lru, k)
                 kept == Len(cache'.lru) - 1
                 evicted == Older(rest, kept + 1)
             IN /\ kept <= Len(rest)
                /\ cache'.lru = <<k>> \o SubSeq(rest, 1, kept)
                /\ DOMAIN cache'.items = {k} \cup {rest[j] : j \in 1..kept}
                /\ cache'.stats.Evictions = cache.stats.Evictions + Cardinality(evicted)
                /\ HeldSize(cache') <= maxSize
                /\ kept < Len(rest) =>
                      HeldSize(cache') + cache.items[rest[kept + 1]].size > maxSize
       /\ ~(CacheStep("Get") \/ CacheStep("Set")) =>
             \E gone \in SUBSET (DOMAIN cache.items) :
                 cache'.lru = SelectSeq(cache.lru, LAMBDA x : x \notin gone)
      ]_vars

\* C15: a Set whose response alone is larger than maxSize fails with the
\* cache-operation error and leaves nothing under its key, whatever was there
\* before, so that a Get of the key that follows it finds nothing; no other
\* Set fails.
C15_OversizeRejected ==
    [][/\ CacheStep("Set") =>
             LET k == lastOp'.key
                 oversize == calculateSize(lastOp'.resp) > maxSize
             IN /\ lastOp'.err = (IF oversize THEN "ErrCacheFailed" ELSE None)
                /\ oversize =>
                      /\ k \notin DOMAIN cache'.items
                      /\ ~Get(cache', k, now).found
       /\ (lastOp.op = "Set" /\ lastOp.err # None
             /\ CacheStep("Get") /\ lastOp'.key = lastOp.key) => ~lastOp'.found
      ]_vars

\* C15 witness: a Set of an oversize response was rejected on a key that held
\* an entry (the only one, gone without an eviction), and a Get of the key
\* now finds nothing.
C15_Witness ==
    /\ lastOp.op = "Set" /\ lastOp.err = "ErrCacheFailed"
    /\ cacheOps = 2 /\ cache.stats.Count = 1 /\ cache.stats.Evictions = 0
    /\ DOMAIN cache.items = {}
    /\ ~Get(cache, lastOp.key, now).found

\* C16 as stated: a Get that follows a successful Set of the key at once
\* returns found with the ID and Content of the response set and Cached=true;
\* when the key held a response before, the Set leaves Count as it was.
C16_RoundTripCountKept ==
    [][(CacheStep("Set") /\ lastOp'.err = None) =>
          LET k == lastOp'.key
              got == Get(cache', k, now)
          IN /\ got.found /\ got.resp.Cached
             /\ got.resp.ID = lastOp'.resp.ID
             /\ got.resp.Content = lastOp'.resp.Content
             /\ k \in DOMAIN cache.items =>
                   Cardinality(DOMAIN cache'.items) = Cardinality(DOMAIN cache.items)
      ]_vars

\* C16 as amended: the same round trip; when the key held a response before,
\* the new one replaces it, and Count is as it was unless the Set evicted
\* another entry to make room.
C16_RoundTrip ==
    [][/\ (CacheStep("Set") /\ lastOp'.err = None) =>
             LET k == lastOp'.key
                 got == Get(cache', k, now)
             IN /\ got.found /\ got.resp.Cached
                /\ got.resp.ID = lastOp'.resp.ID
                /\ got.resp.Content = lastOp'.resp.Content
                /\ cache'.items[k].response = lastOp'.resp
                /\ (k \in DOMAIN cache.items
                      /\ cache'.stats.Evictions = cache.stats.Evictions) =>
                      DOMAIN cache'.items = DOMAIN cache.items
       /\ (lastOp.op = "Set" /\ lastOp.err = None /\ CacheStep("Get")
             /\ lastOp'.key = lastOp.key /\ now <= cache.items[lastOp.key].expiresAt) =>
             /\ lastOp'.found
             /\ lastOp'.resp = [lastOp.resp EXCEPT !.Cached = TRUE]
      ]_vars

\* C16 witness: a key was set twice with different responses and the Get
\* that followed returned the second one, marked as cached.
C16_Witness ==
    /\ cacheOps = 3 /\ lastOp.op = "Get" /\ lastOp.found
    /\ lastOp.resp = [MkResponse("a", BulkyLen) EXCEPT !.Cached = TRUE]
    /\ Cardinality(DOMAIN cache.items) = 1 /\ cache.stats.Evictions = 0
    /\ cache.items[lastOp.key].response = MkResponse("a", BulkyLen)

\* C17: a hit marks only the copy it returns. Every response held by the
\* cache, and every response object that CachedProvider.Analyze returned on a
\* miss, has Cached=false whatever hits came later; the response a hit
\* returns has Cached=true.
C17_OnlyCopyMarked ==
    /\ \A k \in DOMAIN cache.items : ~cache.items[k].response.Cached
    /\ \A o \in handed : ~o.resp.Cached
    /\ (lastOp.op = "Analyze" /\ lastOp.found) => lastOp.resp.Cached

\* C17 witness: the object returned on a miss is still the one the cache
\* holds, and two hits on its key have followed.
C17_Witness ==
    /\ cache.stats.Hits = 2
    /\ lastOp.op = "Analyze" /\ lastOp.found /\ lastOp.resp.Cached
    /\ \E o \in handed :
          /\ o.live /\ o.key = lastOp.key /\ ~o.resp.Cached
          /\ o.resp = cache.items[o.key].response

\* C18: when the wrapped provider answers and Set rejects the answer,
\* CachedProvider.Analyze returns the provider's response with a nil error
\* and Cached=false, and the response is not in the cache.
C18_CacheFailureHidden ==
    [][(lastOp'.op = "Analyze" /\ cacheOps' = cacheOps + 1
          /\ analyzeCalls' = analyzeCalls + 1) =>
        \A o \in ProviderOutcomes :
          LET req == lastOp'.req
              key == GenerateCacheKey(req)
              look == Get(cache, key, now)
              resp == MkResponse(req.ID, o.len)
              r == CachedAnalyze(cache, req, o, now)
          IN (/\ o.ok /\ Stores(req) /\ ~look.found
              /\ Set(look.c, key, resp, CachedTTL(req), now).err # None
              /\ lastOp'.err = r.err /\ cache' = r.c) =>
                 /\ lastOp'.err = None
                 /\ lastOp'.resp = resp /\ ~lastOp'.resp.Cached
                 /\ key \notin DOMAIN cache'.items
      ]_vars

\* C18 witness: a request with caching on was answered with a response larger
\* than the whole budget; the caller has it and the cache does not.
C18_Witness ==
    /\ lastOp.op = "Analyze" /\ ~lastOp.found /\ lastOp.req.UseCache
    /\ lastOp.err = None
    /\ lastOp.resp = MkResponse(lastOp.req.ID, HugeLen)
    /\ TooLarge(calculateSize(lastOp.resp))
    /\ lastOp.key \notin DOMAIN cache.items

KeyFields(req) ==
    <<req.Query, req.Type, req.MaxTokens, req.Temperature, req.Context>>

\* C19: the key is made of Query, Type, MaxTokens, Temperature and Context
\* only. Two requests equal on the five get one key whatever their ID,
\* Metadata and Options; two requests with different queries get different
\* keys.
C19_KeyOfFiveFields ==
    (keyed.k[1] # <<>> /\ keyed.k[2] # <<>>) =>
        /\ KeyFields(keyed.r[1]) = KeyFields(keyed.r[2]) => keyed.k[1] = keyed.k[2]
        /\ keyed.r[1].Query # keyed.r[2].Query => keyed.k[1] # keyed.k[2]

\* The map, the list and the counters of cache c agree.
Consistent(c) ==
    /\ {c.lru[i] : i \in DOMAIN c.lru} = DOMAIN c.items
    /\ Len(c.lru) = Cardinality(DOMAIN c.items)
    /\ c.currentSize = HeldSize(c)
    /\ c.stats.Count = Cardinality(DOMAIN c.items)
    /\ c.stats.Size = c.currentSize

\* C20: at most one goroutine is inside an operation; whenever none is, the
\* map, the list and the counters agree; what an operation writes is what
\* the operation makes of the cache as it is when it writes; and once every
\* worker has Set and Got its own key, with nothing removed by anyone, every
\* Get has hit and the cache holds one entry per worker.
C20_Linearizable ==
    /\ Cardinality(conc.mu) <= 1
    /\ conc.mu = {} => Consistent(cache)
    /\ \A p \in Goroutines :
          conc.procs[p].pc = "computed" =>
             conc.procs[p].work = Apply(conc.procs[p].op, cache, now)
    /\ (/\ conc.mu = {}
        /\ \A w \in Workers : conc.procs[w].n = 2
        /\ \A p \in Goroutines : conc.procs[p].removed = 0) =>
          /\ \A w \in Workers : conc.procs[w].hit
          /\ Cardinality(DOMAIN cache.items) = NumWorkers
          /\ cache.stats.Hits = NumWorkers

\* C20 witness: the workers and the sweeping goroutine have interleaved and
\* finished; every worker's Get hit and the cache holds an entry per worker.
C20_Witness ==
    /\ conc.mu = {}
    /\ \A w \in Workers : conc.procs[w].n = 2 /\ conc.procs[w].hit
    /\ conc.procs[Janitor].n = 1 /\ conc.procs[Janitor].removed = 0
    /\ Cardinality(DOMAIN cache.items) = NumWorkers
    /\ cache.lru = <<WorkerKey(1), WorkerKey(2)>>

\* A chunk that ends a stream: Done=true or a non-nil Error.
Terminal(chunk) == chunk.Done \/ chunk.Error # None

\* readStream has reached the terminal marker, the end of the body or a read
\* or parse error.
StreamEnded ==
    \/ stream.pc \in {"record", "closing", "exit"}
    \/ stream.pc = "send" /\ stream.after = "closing"

\* C21: only readStream closes the channel and only it sends on it, and the
\* channel is closed in the end once readStream has reached the terminal
\* marker, the end of the body or an error, or once the context is
\* cancelled, whether the caller goes on receiving or not.
C21_EventuallyClosed ==
    /\ [](stream.closers \subseteq {"readStream"})
    /\ (stream.pc # "new" /\ (StreamEnded \/ stream.ctxDone)) ~> stream.closed

\* C22: a terminal chunk is the last chunk of its stream: no chunk is sent
\* after it.
C22_TerminalIsLast ==
    \A i \in DOMAIN stream.sent :
        Terminal(stream.sent[i]) => i = Len(stream.sent)

\* C23: Validate returns nil exactly when every member validates, and
\* otherwise the validation error of a member that does not.
C23_ValidateAll ==
    members.last.op = "Validate" =>
        LET ps == members.providers
            ret == members.last.ret
        IN /\ ret = NilErr <=> \A i \in DOMAIN ps : ~ps[i].invalid
           /\ ret # NilErr =>
                 \E i \in DOMAIN ps : ps[i].invalid /\ ret = MemberError("validate", i)

\* C23 witness: the first member validates, the second does not, and
\* Validate has returned the error of the second.
C23_Witness ==
    /\ members.last.op = "Validate"
    /\ Len(members.providers) = 2
    /\ ~members.providers[1].invalid /\ members.providers[2].invalid
    /\ members.last.ret = MemberError("validate", 2)
    /\ members.last.called = <<1, 2>>

\* C24: Close closes every member whatever the earlier ones returned; it
\* returns nil when no member failed and otherwise the close errors of all
\* failing members, in the order of the members.
C24_CloseAll ==
    members.last.op = "Close" =>
        LET ps == members.providers
            errs == members.last.Errors
            failing == {i \in DOMAIN ps : ps[i].failsClose}
        IN /\ members.last.called = [i \in DOMAIN ps |-> i]
           /\ members.last.nil <=> failing = {}
           /\ Len(errs) = Cardinality(failing)
           /\ \A i \in failing : \E k \in DOMAIN errs : errs[k] = MemberError("close", i)
           /\ \A k, l \in DOMAIN errs : \A i, j \in failing :
                 (k < l /\ errs[k] = MemberError("close", i)
                        /\ errs[l] = MemberError("close", j)) => i < j

\* C24 witness: both members fail to close and Close has returned both
\* errors in order.
C24_Witness ==
    /\ members.last.op = "Close" /\ ~members.last.nil
    /\ Len(members.providers) = 2
    /\ members.last.Errors = <<MemberError("close", 1), MemberError("close", 2)>>

\* The sum of a counter over the members.
RECURSIVE SumMembers(_, _, _)
SumMembers(ps, i, field) ==
    IF i > Len(ps) THEN 0 ELSE ps[i].metrics[field] + SumMembers(ps, i + 1, field)

\* The sum of a counter of the records named name over the members.
RECURSIVE SumNamed(_, _, _, _)
SumNamed(ps, i, name, field) ==
    IF i > Len(ps) THEN 0
    ELSE (IF name \in DOMAIN ps[i].metrics.ProviderMetrics
          THEN ps[i].metrics.ProviderMetrics[name][field] ELSE 0)
         + SumNamed(ps, i + 1, name, field)

Counters == {"TotalRequests", "SuccessfulRequests", "FailedRequests",
             "CachedResponses", "TotalTokensUsed"}
NamedCounters == {"Requests", "SuccessfulRequests", "FailedRequests", "TokensUsed"}

\* C25: the metrics GetMetrics returns are built anew; their counters are
\* the sums of the members' counters when it is called, in total and per
\* provider name; and what a member records later changes nothing in
\* metrics returned earlier.
C25_SnapshotFresh ==
    LET ps == members.providers
        snaps == members.snapshots
    IN /\ \A k \in DOMAIN snaps :
             /\ Seen(snaps[k].snap, ps) = snaps[k].taken
             /\ \A name \in DOMAIN snaps[k].snap.object : snaps[k].snap.object[name] = 0
       /\ members.last.op = "GetMetrics" =>
             LET m == Seen(snaps[Len(snaps)].snap, ps)
             IN /\ \A f \in Counters : m[f] = SumMembers(ps, 1, f)
                /\ \A name \in {MemberName(i) : i \in DOMAIN ps} :
                      (\E i \in DOMAIN ps : name \in DOMAIN ps[i].metrics.ProviderMetrics) =>
                         /\ name \in DOMAIN m.ProviderMetrics
                         /\ \A f \in NamedCounters :
                               m.ProviderMetrics[name][f] = SumNamed(ps, 1, name, f)
                /\ \A name \in DOMAIN m.ProviderMetrics :
                      \E i \in DOMAIN ps : name \in DOMAIN ps[i].metrics.ProviderMetrics

\* C25 witness: metrics were returned when a request had been recorded, a
\* member has recorded another since, and the metrics returned still show
\* the one.
C25_Witness ==
    /\ Len(members.snapshots) >= 1
    /\ members.snapshots[1].taken.TotalRequests = 1
    /\ "pa" \in DOMAIN members.snapshots[1].taken.ProviderMetrics
    /\ Seen(members.snapshots[1].snap, members.providers).ProviderMetrics["pa"].Requests = 1
    /\ members.last.op = "Record"
    /\ members.providers[1].metrics.ProviderMetrics["pa"].Requests = 2

\* What C26 names: two providers of one name, a provider of unknown type, a
\* provider with no authentication method, a negative numeric setting.
DuplicateName(c) ==
    \E i, j \in DOMAIN c.Providers : i # j /\ c.Providers[i].Name = c.Providers[j].Name

UnknownType(c) == \E i \in DOMAIN c.Providers : c.Providers[i].Type \notin ValidTypes

MissingAuth(c) ==
    \E i \in DOMAIN c.Providers :
        LET auth == c.Providers[i].Auth
        IN /\ auth.Token = "" /\ auth.APIKey = "" /\ auth.AdditionalAuth = 0
           /\ (auth.Username = "" \/ auth.Password = "")

NegativeSetting(c) ==
    \/ \E i \in DOMAIN c.Providers : c.Providers[i].Priority < 0
    \/ c.Caching.TTL < 0
    \/ c.RateLimiting.RequestsPerMinute < 0
    \/ c.RateLimiting.TokensPerMinute < 0

\* C26: ValidateConfig returns an invalid-configuration error for every
\* configuration with a duplicate provider name, an unknown provider type, a
\* provider without authentication or a negative numeric setting, whatever
\* its other fields are.
C26_RejectsInvalid ==
    (config.op = "ValidateConfig" /\ ~config.nil
       /\ (DuplicateName(config) \/ UnknownType(config) \/ MissingAuth(config)
             \/ NegativeSetting(config))) => ~config.err.nil

\* C27: GetEnabledProviders returns exactly the enabled providers, each
\* once, in the order of non-decreasing Priority, and the provider list of
\* the configuration is as it was given.
C27_EnabledByPriority ==
    config.op = "GetEnabledProviders" =>
        LET r == config.enabled
            on == {i \in DOMAIN config.given : config.given[i].Enabled}
        IN /\ Len(r) = Cardinality(on)
           /\ {r[k] : k \in DOMAIN r} = {config.given[i] : i \in on}
           /\ \A k \in 1..(Len(r) - 1) : r[k].Priority <= r[k + 1].Priority
           /\ config.Providers = config.given

\* C27 witness: three providers, the second disabled, the third of a lower
\* priority number than the first, which comes after it in the result.
C27_Witness ==
    /\ config.op = "GetEnabledProviders"
    /\ Len(config.given) = 3
    /\ ~config.given[2].Enabled
    /\ config.given[1].Priority = 2 /\ config.given[3].Priority = 1
    /\ config.enabled = <<config.given[3], config.given[1]>>

\* C28: the rate GetSuccessRate returns is, to the unit of the fixed-point
\* numbers, 100 times the RecordRequest calls over the RecordRequest and
\* RecordFailure calls made since construction or the last Reset, and 0 when
\* there were none.
C28_SuccessRate ==
    usage.op = "GetSuccessRate" =>
        LET total == usage.successes + usage.failures
            exact == usage.successes * 100 * RateScale
        IN IF total = 0 THEN usage.rate = 0
           ELSE /\ usage.rate * total <= exact
                /\ exact < (usage.rate + 100) * total

\* C28 witness: after a Reset that followed a request, one request and two
\* failures are recorded and the rate returned is a third of a hundred.
C28_Witness ==
    /\ usage.op = "GetSuccessRate"
    /\ usage.resets = 1 /\ usage.calls = 4
    /\ usage.successes = 1 /\ usage.failures = 2
    /\ usage.rate = 33300

\* C29: after any sequence of Set, Get, Delete, Clear and CleanupExpired,
\* Size() is the summed estimated size of the entries stored, so it is never
\* negative and is 0 exactly when Count() is 0, and the map and the LRU list
\* hold the same entries.
C29_SizeBookkeeping ==
    /\ cache.currentSize = HeldSize(cache)
    /\ cache.currentSize >= 0
    /\ (cache.currentSize = 0) <=> (Cardinality(DOMAIN cache.items) = 0)
    /\ {cache.lru[i] : i \in DOMAIN cache.lru} = DOMAIN cache.items
    /\ Len(cache.lru) = Cardinality(DOMAIN cache.items)

\* C30: CleanupExpired, run at any moment, removes the entries whose expiry
\* has passed and no other, leaves every other entry as it is and
\* retrievable by Get, and returns the number of entries it removed.
C30_SweepOnlyExpired ==
    [][(lastOp'.op = "CleanupExpired" /\ cacheOps' = cacheOps + 1) =>
        LET past == {k \in DOMAIN cache.items : now > cache.items[k].expiresAt}
        IN /\ DOMAIN cache'.items = (DOMAIN cache.items) \ past
           /\ lastOp'.removed = Cardinality(past)
           /\ \A k \in DOMAIN cache'.items :
                 /\ cache'.items[k] = cache.items[k]
                 /\ Get(cache', k, now').found
                 /\ Get(cache', k, now').resp.Content = cache.items[k].response.Content
      ]_vars

\* C30 witness: a sweep removed one entry and kept another, whose expiry
\* has not passed.
C30_Witness ==
    /\ lastOp.op = "CleanupExpired" /\ lastOp.removed = 1
    /\ Cardinality(DOMAIN cache.items) = 1
    /\ \A k \in DOMAIN cache.items : now <= cache.items[k].expiresAt

\* C31: a failed round trip is taken for retryable exactly when it is a 429
\* response, a timeout (or another failure of the connection) or a 5xx
\* response, whatever the body of the response holds; a 400, 401 or 404
\* response is never retried.
C31_RetryFollowsStatus ==
    retry.decided =>
        LET f == retry.outcome
        IN retry.retried <=>
              IF f.transport THEN f.text \in {"timeout", "connection"}
              ELSE f.status \in {"429", "500", "503"}

\* C32: when the context of the call is already cancelled at the moment a
\* member returns its error and members remain, Analyze ends there with a
\* cancellation error; none of the remaining members is invoked.
C32_CancelEndsChain ==
    [][(chain.pc = "running" /\ chain.cancelled
          /\ chain.next < Len(chain.providers)
          /\ Len(chain'.answers) = Len(chain.answers) + 1
          /\ ~Last(chain'.answers).ok) =>
             /\ chain'.pc = "done"
             /\ chain'.err.kind = "context canceled"
      ]_vars

\* C33: a successful miss with UseCache=true whose response fits the budget
\* stores the response with the CacheTTL of the request when that is above
\* zero and with the default TTL otherwise: the entry is served by Get up to
\* that time after the call and at no later time.
C33_ChosenTTL ==
    [][(lastOp'.op = "Analyze" /\ cacheOps' = cacheOps + 1
          /\ analyzeCalls' = analyzeCalls + 1 /\ lastOp'.err = None
          /\ lastOp'.req.UseCache
          /\ calculateSize(lastOp'.resp) <= maxSize) =>
        LET req == lastOp'.req
            key == GenerateCacheKey(req)
            ttl == IF req.CacheTTL > 0 THEN req.CacheTTL ELSE DefaultTTL
        IN /\ key \in DOMAIN cache'.items
           /\ cache'.items[key].response = lastOp'.resp
           /\ cache'.items[key].expiresAt = now + ttl
           /\ \A u \in now..(now + DefaultTTL + 1) :
                 Get(cache', key, u).found <=> (u <= now + ttl)
      ]_vars

\* C33 witness: at time 1 a miss with CacheTTL = 1 was stored to expire at
\* time 2, where the default would have given 3.
C33_Witness ==
    /\ lastOp.op = "Analyze" /\ ~lastOp.found /\ lastOp.err = None
    /\ lastOp.req.UseCache /\ lastOp.req.CacheTTL = 1
    /\ now = 1
    /\ lastOp.key \in DOMAIN cache.items
    /\ cache.items[lastOp.key].expiresAt = 2

\* C34: when every caller sent the same request with UseCache=true to a
\* CachedProvider whose cache was empty, and no call of the wrapped provider
\* failed, then, all of them having returned, the wrapped provider has been
\* invoked exactly once and every caller holds a response.
C34_OneCallForAll ==
    (flight.req.UseCache /\ flight.failed = 0
       /\ \A g \in Flights : flight.c[g].pc = "done") =>
          /\ analyzeCalls = 1
          /\ \A g \in Flights :
                flight.c[g].err = None /\ flight.c[g].resp.ID = flight.req.ID

\* Some goroutine has not returned and none can take a step.
Deadlocked ==
    /\ \E g \in Lockers : ~Finished(rw.g[g])
    /\ \A g \in Lockers : ~CanStep(g)

\* C35: a Snapshot beside goroutines that record on the same UsageMetrics
\* is never blocked for good: as long as it has not returned, it or one of
\* the other goroutines can take a step.
C35_SnapshotCompletes ==
    (rw.kind = "snapshot" /\ ~Finished(rw.g[1])) => ~Deadlocked

\* C36: a.Merge(b) beside b.Merge(a), and a.Merge(a) alone, are never
\* blocked for good.
C36_MergeCompletes ==
    (rw.kind \in {"merge", "selfmerge"}
       /\ \E g \in {1, 2} : ~Finished(rw.g[g])) => ~Deadlocked

\* The sum of a counter over the per-provider records of metrics m.
RECURSIVE SumRecords(_, _, _)
SumRecords(m, names, field) ==
    IF names = {} THEN 0
    ELSE LET name == CHOOSE x \in names : TRUE
         IN m.ProviderMetrics[name][field] + SumRecords(m, names \ {name}, field)

\* C37: after any sequence of RecordRequest, RecordFailure, RecordCacheHit,
\* RecordLatency, RecordRequestType, Merge and Reset, TotalRequests is
\* SuccessfulRequests plus FailedRequests, and the requests, successes,
\* failures and tokens are each the sum of the same counter over the
\* per-provider records.
C37_CountersAgree ==
    LET names == DOMAIN metrics.ProviderMetrics
    IN /\ metrics.TotalRequests = metrics.SuccessfulRequests + metrics.FailedRequests
       /\ metrics.TotalRequests = SumRecords(metrics, names, "Requests")
       /\ metrics.SuccessfulRequests = SumRecords(metrics, names, "SuccessfulRequests")
       /\ metrics.FailedRequests = SumRecords(metrics, names, "FailedRequests")
       /\ metrics.TotalTokensUsed = SumRecords(metrics, names, "TokensUsed")

\* C37 witness: after a Reset, a failure recorded here and a Merge that
\* brought a request of one provider and a failure of another.
C37_Witness ==
    /\ usage.op = "Merge" /\ usage.resets = 1
    /\ metrics.TotalRequests = 3 /\ metrics.FailedRequests = 2
    /\ Cardinality(DOMAIN metrics.ProviderMetrics) = 3

C39_FailureStoresNothing ==
    [][(CacheStep("Analyze") /\ lastOp'.err = "provider error") =>
          LET req == lastOp'.req
              key == lastOp'.key
          IN  /\ lastOp'.resp = None
              /\ analyzeCalls' = analyzeCalls + 1
              /\ DOMAIN cache'.items \subseteq DOMAIN cache.items
              /\ \A k \in DOMAIN cache'.items : cache'.items[k] = cache.items[k]
              /\ \A k \in DOMAIN cache.items \ DOMAIN cache'.items :
                    k = key /\ req.UseCache /\ Expired(cache.items[k], now)
              /\ cache'.stats.Evictions = cache.stats.Evictions
              /\ \A t \in now'..MaxTime :
                    CachedAnalyze(cache', req, [ok |-> FALSE, len |-> 0], t).called
      ]_vars

\* The provider failed on a caching request while other requests' answers
\* were stored, after an earlier invocation: nothing is held for the request.
C39_Witness ==
    /\ lastOp.op = "Analyze"
    /\ lastOp.err = "provider error"
    /\ lastOp.req.UseCache
    /\ analyzeCalls >= 2
    /\ DOMAIN cache.items # {}
    /\ lastOp.key \notin DOMAIN cache.items

\* What Helm's client does to its own files while the repositories are
\* refreshed.
HelmEffects ==
    {Effect(kind, "helm") : kind \in {"MkdirAll", "WriteFile", "DownloadIndexFile"}}

\* A step of a dry run that ends it after the releases were listed.
DryRunEnds == run.cfg.DryRun /\ run.pc # "ListReleases" /\ run'.pc = "done"

\* C40 as stated: a dry run only reads, so it writes no file and does nothing
\* to the repository or to GitHub, and it returns nil once the releases have
\* been listed.
C40_DryRunOnlyReads ==
    /\ [](run.cfg.DryRun => run.effects = {})
    /\ [][DryRunEnds => run'.ret = "nil"]_vars

\* C40: a dry run never clones the repository, creates a branch, writes a
\* file of the clone, commits, pushes or opens a pull request, whatever the
\* releases and updates: all it touches are Helm's own configuration
\* directory and repository file and the indexes it downloads, while the
\* repositories are refreshed; it returns nil once the releases have been
\* listed.
C40_DryRunLeavesRepository ==
    /\ [](run.cfg.DryRun =>
            /\ run.effects \subseteq HelmEffects
            /\ run.pc \notin {"CloneRepository", "processUpdates"})
    /\ [][DryRunEnds => run'.ret = "nil"]_vars

\* A dry run has ended with nil after it found updates for both of the
\* releases it listed and refreshed the repositories.
C40_Witness ==
    /\ run.cfg.DryRun
    /\ run.pc = "done"
    /\ run.ret = "nil"
    /\ Len(run.releases) = 2
    /\ Len(run.updates) = 2
    /\ run.effects # {}

====
